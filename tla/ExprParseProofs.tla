-------------------------- MODULE ExprParseProofs --------------------------
(***************************************************************************)
(* The stacks of the expression parser agree with each other, for          *)
(* expressions of any length and nesting: every operator finds its         *)
(* operands, every open chain of comparisons has its place among the       *)
(* parentheses, and every jump taken is to a label that is still to come.  *)
(* And what the parser refuses is no expression: the waiting operators     *)
(* stand in what has been read where the grammar has them.                 *)
(***************************************************************************)
EXTENDS ExprSyntax, SequenceTheorems, FiniteSetTheorems, WellFoundedInduction, TLAPS

-----------------------------------------------------------------------------
(* Stacks. *)

LEMMA FrontFacts ==
  ASSUME NEW S, NEW s \in Seq(S), s # <<>>
  PROVE  /\ Front(s) \in Seq(S) /\ Len(Front(s)) = Len(s) - 1
         /\ \A i \in 1..Len(s) - 1 : Front(s)[i] = s[i]
         /\ Len(s) \in Nat \ {0} /\ Last(s) \in S /\ Last(s) = s[Len(s)]
  <1>1. Len(s) \in Nat \ {0} /\ \A i \in 1..Len(s) : s[i] \in S
    BY EmptySeq, ElementOfSeq
  <1> DEFINE n == Len(s) - 1
             q == SubSeq(s, 1, n)
  <1>2. Front(s) = q /\ Last(s) = s[Len(s)] /\ Last(s) \in S
    BY <1>1 DEF Front, Last
  <1>3. n \in Nat /\ Len(s) = n + 1
    BY <1>1
  <1> HIDE DEF n
  <1>4. \A i \in 1..n : s[i] \in S
    BY <1>1, <1>3
  <1>5. /\ q \in Seq(S) /\ Len(q) = IF 1 <= n THEN n - 1 + 1 ELSE 0
        /\ \A i \in 1..n - 1 + 1 : q[i] = s[1 + i - 1]
    BY <1>3, <1>4, SubSeqProperties
  <1> HIDE DEF q
  <1>6. Len(q) = n
    BY <1>3, <1>5
  <1>7. \A i \in 1..n : q[i] = s[i]
    <2> TAKE i \in 1..n
    <2>1. i \in 1..n - 1 + 1 /\ 1 + i - 1 = i
      BY <1>3
    <2>2. QED
      BY <1>5, <2>1
  <1>8. Len(s) - 1 = n
    BY <1>3
  <1>9. QED
    BY <1>1, <1>2, <1>5, <1>6, <1>7, <1>8

LEMMA FrontRange ==
  ASSUME NEW S, NEW s \in Seq(S), s # <<>>
  PROVE  Range(s) \subseteq Range(Front(s)) \cup {Last(s)}
  <1>1. /\ Range(s) = {s[i] : i \in 1..Len(s)}
        /\ Range(Front(s)) = {Front(s)[i] : i \in 1..Len(Front(s))}
    BY FrontFacts, RangeEquality
  <1>2. ASSUME NEW i \in 1..Len(s), i # Len(s)
        PROVE  s[i] \in Range(Front(s))
    <2>1. i \in 1..Len(Front(s)) /\ Front(s)[i] = s[i]
      BY <1>2, FrontFacts
    <2>2. QED
      BY <1>1, <2>1
  <1>3. QED
    BY <1>1, <1>2, FrontFacts

LEMMA AppendRange ==
  ASSUME NEW S, NEW s \in Seq(S), NEW x \in S
  PROVE  Range(s) \cup {x} \subseteq Range(Append(s, x))
  <1> DEFINE t == Append(s, x)
  <1>1. /\ t \in Seq(S) /\ Len(t) = Len(s) + 1 /\ t[Len(s) + 1] = x
        /\ \A i \in 1..Len(s) : t[i] = s[i]
    BY AppendProperties
  <1>2. Len(s) \in Nat
    BY LenProperties
  <1> HIDE DEF t
  <1>3. Range(s) = {s[i] : i \in 1..Len(s)} /\ Range(t) = {t[i] : i \in 1..Len(t)}
    BY <1>1, RangeEquality
  <1>4. QED
    BY <1>1, <1>2, <1>3 DEF t

LEMMA SetTopFacts ==
  ASSUME NEW S, NEW s \in Seq(S), s # <<>>, NEW v \in S
  PROVE  /\ SetTop(s, v) \in Seq(S) /\ Len(SetTop(s, v)) = Len(s)
         /\ SetTop(s, v) # <<>> /\ SetTop(s, v)[Len(s)] = v
         /\ \A i \in 1..Len(s) - 1 : SetTop(s, v)[i] = s[i]
  BY FrontFacts, AppendProperties DEF SetTop

LEMMA TopFacts ==
  ASSUME NEW s \in Seq(Nat)
  PROVE  /\ Top(s) \in Nat
         /\ s # <<>> => Top(s) = Last(s) /\ Top(s) = s[Len(s)] /\ Top(s) \in Range(s)
         /\ Top(s) # 0 => s # <<>>
  <1>1. CASE s = <<>>
    BY <1>1 DEF Top
  <1>2. CASE s # <<>>
    <2>1. /\ Top(s) = Last(s) /\ Last(s) = s[Len(s)] /\ Last(s) \in Nat
          /\ Len(s) \in Nat \ {0}
      BY <1>2, FrontFacts DEF Top
    <2>2. s[Len(s)] \in Range(s)
      BY <2>1, RangeEquality
    <2>3. QED
      BY <1>2, <2>1, <2>2
  <1>3. QED
    BY <1>1, <1>2

-----------------------------------------------------------------------------
(* Sums over a stack: t is the sum of the weights w of the elements of s.  *)

Tally(s, w, t) ==
  \E f \in [0..Len(s) -> Nat] :
    /\ f[0] = 0 /\ f[Len(s)] = t
    /\ \A i \in 1..Len(s) : f[i] = f[i - 1] + w[s[i]]

LEMMA TallyNone ==
  ASSUME NEW w
  PROVE  Tally(<<>>, w, 0) /\ \A t : Tally(<<>>, w, t) => t = 0
  <1>1. Tally(<<>>, w, 0)
    <2> DEFINE f == [i \in 0..0 |-> 0]
    <2>1. f \in [0..Len(<<>>) -> Nat] /\ f[0] = 0
      OBVIOUS
    <2> HIDE DEF f
    <2>2. QED
      BY <2>1 DEF Tally
  <1>2. QED
    BY <1>1 DEF Tally

LEMMA TallyNat ==
  ASSUME NEW S, NEW s \in Seq(S), NEW w, NEW t, Tally(s, w, t)
  PROVE  t \in Nat
  BY LenProperties DEF Tally

LEMMA TallyAppend ==
  ASSUME NEW S, NEW s \in Seq(S), NEW w \in [S -> Nat], NEW x \in S,
         NEW t, Tally(s, w, t)
  PROVE  Tally(Append(s, x), w, t + w[x])
  <1> DEFINE r == Append(s, x)
             n == Len(s)
  <1>1. PICK f \in [0..n -> Nat] : /\ f[0] = 0 /\ f[n] = t
                                   /\ \A i \in 1..n : f[i] = f[i - 1] + w[s[i]]
    BY DEF Tally
  <1> DEFINE g == [i \in 0..n + 1 |-> IF i <= n THEN f[i] ELSE t + w[x]]
  <1>2. n \in Nat /\ Len(r) = n + 1 /\ r[n + 1] = x /\ \A i \in 1..n : r[i] = s[i]
    BY AppendProperties, LenProperties
  <1>3. w[x] \in Nat /\ t \in Nat
    BY <1>1, <1>2
  <1> HIDE DEF r, n
  <1>4. g \in [0..n + 1 -> Nat] /\ g[0] = 0 /\ g[n + 1] = t + w[x]
    BY <1>1, <1>2, <1>3
  <1>5. ASSUME NEW i \in 1..n + 1
        PROVE  g[i] = g[i - 1] + w[r[i]]
    <2>1. CASE i \in 1..n
      <3>1. f[i] = f[i - 1] + w[s[i]] /\ r[i] = s[i]
        BY <1>1, <1>2, <2>1
      <3>2. g[i] = f[i]
        BY <1>2, <2>1
      <3>3. i - 1 \in 0..n
        BY <1>2, <2>1
      <3>4. g[i - 1] = f[i - 1]
        BY <1>2, <3>3
      <3>5. QED
        BY <3>1, <3>2, <3>4
    <2>2. CASE i = n + 1
      <3>1. r[i] = x /\ i - 1 = n
        BY <1>2, <2>2
      <3>2. g[i] = t + w[x] /\ g[n] = t
        BY <1>1, <1>2, <2>2
      <3>3. QED
        BY <2>2, <3>1, <3>2
    <2>3. QED
      BY <1>2, <2>1, <2>2
  <1> HIDE DEF g
  <1>6. QED
    BY <1>2, <1>4, <1>5 DEF Tally, r

LEMMA TallyFront ==
  ASSUME NEW S, NEW s \in Seq(S), s # <<>>, NEW w \in [S -> Nat],
         NEW t, Tally(s, w, t)
  PROVE  /\ t - w[Last(s)] \in Nat /\ w[Last(s)] \in Nat
         /\ Tally(Front(s), w, t - w[Last(s)])
  <1> DEFINE r == Front(s)
             n == Len(s) - 1
  <1>1. PICK f \in [0..Len(s) -> Nat] :
               /\ f[0] = 0 /\ f[Len(s)] = t
               /\ \A i \in 1..Len(s) : f[i] = f[i - 1] + w[s[i]]
    BY DEF Tally
  <1> DEFINE g == [i \in 0..n |-> f[i]]
  <1>2a. /\ Len(s) \in Nat \ {0} /\ Last(s) \in S /\ Last(s) = s[Len(s)]
         /\ Len(r) = n /\ \A i \in 1..n : r[i] = s[i]
    BY FrontFacts
  <1>2b. n \in Nat /\ Len(s) = n + 1
    BY <1>2a
  <1>2. /\ n \in Nat /\ Len(s) = n + 1 /\ Len(r) = n /\ Last(s) = s[n + 1]
        /\ Last(s) \in S /\ \A i \in 1..n : r[i] = s[i]
    BY <1>2a, <1>2b
  <1> HIDE DEF r, n
  <1>3. t = f[n] + w[Last(s)] /\ f[n] \in Nat /\ w[Last(s)] \in Nat
    BY <1>1, <1>2
  <1>4. g \in [0..n -> Nat] /\ g[0] = 0 /\ g[n] = t - w[Last(s)]
    BY <1>1, <1>2, <1>3
  <1>5. ASSUME NEW i \in 1..n PROVE g[i] = g[i - 1] + w[r[i]]
    BY <1>1, <1>2
  <1> HIDE DEF g
  <1>6. Tally(r, w, t - w[Last(s)])
    BY <1>2, <1>4, <1>5 DEF Tally
  <1>7. t - w[Last(s)] \in Nat
    BY <1>1, <1>2, <1>3
  <1>8. QED
    BY <1>3, <1>6, <1>7 DEF r

LEMMA TallySetTop ==
  ASSUME NEW S, NEW s \in Seq(S), s # <<>>, NEW w \in [S -> Nat], NEW v \in S,
         NEW t, Tally(s, w, t)
  PROVE  /\ t - w[Last(s)] \in Nat
         /\ Tally(SetTop(s, v), w, t - w[Last(s)] + w[v])
  <1>1. t - w[Last(s)] \in Nat /\ Tally(Front(s), w, t - w[Last(s)])
    BY TallyFront
  <1>2. Front(s) \in Seq(S)
    BY FrontFacts
  <1>3. QED
    BY <1>1, <1>2, TallyAppend DEF SetTop

-----------------------------------------------------------------------------
(* The machine. *)

Machine == [reg : Seq(Int), nz : BOOLEAN, skip : Nat,
            stores : Seq(Nat \X Int)]

(* An operand where n registers are in use. *)
NameOps     == [kind : {"name"}, at : DOMAIN Names, isLValue : {TRUE}]
RegOps(n)   == [kind : {"reg"}, at : 1..n, isLValue : BOOLEAN]
Operands(n) == NameOps \cup RegOps(n)
Valued      == value \in [DOMAIN Names -> Int] /\ stale \in Int

LEMMA RegLen ==
  ASSUME NEW m \in Machine
  PROVE  Len(m.reg) \in Nat /\ m.reg \in Seq(Int) /\ \A i \in 1..Len(m.reg) : m.reg[i] \in Int
  BY LenProperties, ElementOfSeq DEF Machine

LEMMA NameFacts ==
  ASSUME NEW i \in DOMAIN Names, NEW n
  PROVE  Name(i) \in Operands(n)
  BY DEF Name, Operands, NameOps

LEMMA RegFacts ==
  ASSUME NEW n \in Nat, NEW i \in 1..n
  PROVE  Reg(i) \in Operands(n)
  BY DEF Reg, Operands, RegOps

LEMMA OperandsGrow ==
  ASSUME NEW n \in Nat, NEW k \in Nat, n <= k
  PROVE  Operands(n) \subseteq Operands(k)
  BY DEF Operands, RegOps

LEMMA FetchFacts ==
  ASSUME NEW m \in Machine, NEW x \in Operands(Len(m.reg)), Valued
  PROVE  /\ Fetch(m, x) \in Machine /\ Fetch(m, x).skip = m.skip
         /\ Len(m.reg) <= Len(Fetch(m, x).reg)
         /\ RegOf(m, x) \in 1..Len(Fetch(m, x).reg)
  <1>1. Len(m.reg) \in Nat /\ m.reg \in Seq(Int)
    BY RegLen
  <1>2. CASE x.kind # "name"
    <2>1. x.at \in 1..Len(m.reg)
      BY <1>2 DEF Operands, NameOps, RegOps
    <2>2. QED
      BY <1>1, <1>2, <2>1 DEF Fetch, RegOf
  <1>3. CASE x.kind = "name"
    <2> DEFINE v == IF m.skip = 0 THEN value[x.at] ELSE stale
               s == Append(m.reg, v)
    <2>1. x.at \in DOMAIN Names
      BY <1>3 DEF Operands, NameOps, RegOps
    <2>2. v \in Int
      BY <2>1 DEF Valued
    <2>3. s \in Seq(Int) /\ Len(s) = Len(m.reg) + 1
      BY <1>1, <2>2, AppendProperties
    <2>4. Fetch(m, x) = [m EXCEPT !.reg = s]
      BY <1>3 DEF Fetch
    <2>5. RegOf(m, x) = Len(m.reg) + 1
      BY <1>3 DEF RegOf
    <2> HIDE DEF s
    <2>6. /\ Fetch(m, x) \in Machine /\ Fetch(m, x).skip = m.skip
          /\ Fetch(m, x).reg = s
      BY <2>3, <2>4 DEF Machine
    <2>7. QED
      BY <1>1, <2>3, <2>5, <2>6
  <1>4. QED
    BY <1>2, <1>3

LEMMA SetFacts ==
  ASSUME NEW m \in Machine, NEW i \in 1..Len(m.reg), NEW v \in Int, NEW b \in BOOLEAN
  PROVE  /\ Set(m, i, v, b) \in Machine /\ Set(m, i, v, b).skip = m.skip
         /\ Len(Set(m, i, v, b).reg) = Len(m.reg)
  <1> DEFINE s == [m.reg EXCEPT ![i] = v]
  <1>1. s \in Seq(Int) /\ Len(s) = Len(m.reg)
    BY RegLen, ExceptSeq
  <1>2. [m EXCEPT !.reg[i] = v, !.nz = b] = [m EXCEPT !.reg = s, !.nz = b]
    BY DEF Machine
  <1> HIDE DEF s
  <1>3. CASE m.skip # 0
    BY <1>3 DEF Set
  <1>4. CASE m.skip = 0
    <2>1. Set(m, i, v, b) = [m EXCEPT !.reg = s, !.nz = b]
      BY <1>2, <1>4 DEF Set
    <2>2. QED
      BY <1>1, <2>1 DEF Machine
  <1>5. QED
    BY <1>3, <1>4

LEMMA JumpIfFacts ==
  ASSUME NEW m \in Machine, NEW c, NEW l \in Nat
  PROVE  /\ JumpIf(m, c, l) \in Machine /\ JumpIf(m, c, l).reg = m.reg
         /\ \/ JumpIf(m, c, l).skip = m.skip
            \/ JumpIf(m, c, l).skip = l /\ l # 0
  BY DEF JumpIf, Machine

LEMMA EmittedFacts ==
  ASSUME NEW m \in Machine, NEW l
  PROVE  /\ Emitted(m, l) \in Machine /\ Emitted(m, l).reg = m.reg
         /\ \/ Emitted(m, l).skip = 0
            \/ Emitted(m, l).skip = m.skip /\ m.skip # l
  BY DEF Emitted, Machine

LEMMA StoreFacts ==
  ASSUME NEW m \in Machine, NEW i \in Nat, NEW v \in Int
  PROVE  /\ Store(m, i, v) \in Machine /\ Store(m, i, v).reg = m.reg
         /\ Store(m, i, v).skip = m.skip
  <1> DEFINE s == Append(m.stores, <<i, v>>)
  <1>1. m.stores \in Seq(Nat \X Int)
    BY DEF Machine
  <1>2. s \in Seq(Nat \X Int)
    BY <1>1, AppendProperties
  <1>3. Store(m, i, v) = IF m.skip # 0 THEN m ELSE [m EXCEPT !.stores = s]
    BY DEF Store
  <1> HIDE DEF s
  <1>4. QED
    BY <1>2, <1>3 DEF Machine

(* What the handlers emit: n is m after instructions that leave the number *)
(* of registers and the jump under way alone.                              *)
Plain(m, n) == n \in Machine /\ Len(n.reg) = Len(m.reg) /\ n.skip = m.skip

LEMMA SetPlain ==
  ASSUME NEW m \in Machine, NEW i \in 1..Len(m.reg), NEW v \in Int, NEW b \in BOOLEAN
  PROVE  Plain(m, Set(m, i, v, b))
  BY SetFacts DEF Plain

LEMMA TruthInt ==
  ASSUME NEW b
  PROVE  Truth(b) \in Int
  BY DEF Truth

LEMMA PrefixDoneFacts ==
  ASSUME NEW m \in Machine, NEW i \in 1..Len(m.reg), NEW o
  PROVE  Plain(m, PrefixDone(m, i, o))
  <1> DEFINE v == m.reg[i]
  <1>1. v \in Int
    BY RegLen
  <1>2. PrefixDone(m, i, o) = IF o = "!" THEN Set(m, i, Truth(v = 0), v # 0)
                                         ELSE Set(m, i, -v, v # 0)
    BY DEF PrefixDone
  <1> HIDE DEF v
  <1>3. -v \in Int /\ (v # 0) \in BOOLEAN /\ Truth(v = 0) \in Int
    BY <1>1, TruthInt
  <1>4. Plain(m, Set(m, i, Truth(v = 0), v # 0)) /\ Plain(m, Set(m, i, -v, v # 0))
    BY <1>3, SetPlain
  <1>5. QED
    BY <1>2, <1>4

LEMMA ArithDoneFacts ==
  ASSUME NEW m \in Machine, NEW i \in 1..Len(m.reg), NEW j \in 1..Len(m.reg), NEW o
  PROVE  Plain(m, ArithDone(m, i, j, o))
  <1> DEFINE v == Arith(o, m.reg[i], m.reg[j])
  <1>1. m.reg[i] \in Int /\ m.reg[j] \in Int
    BY RegLen
  <1>2. m.reg[i] * m.reg[j] \in Int /\ m.reg[i] - m.reg[j] \in Int
    BY <1>1
  <1>3. v \in Int
    BY <1>2 DEF Arith
  <1>4. ArithDone(m, i, j, o) = Set(m, i, v, v # 0)
    BY DEF ArithDone
  <1> HIDE DEF v
  <1>5. (v # 0) \in BOOLEAN
    OBVIOUS
  <1>6. QED
    BY <1>3, <1>4, <1>5, SetPlain

LEMMA BitsDoneFacts ==
  ASSUME NEW m \in Machine, NEW i \in 1..Len(m.reg), NEW j \in 1..Len(m.reg), NEW o
  PROVE  Plain(m, BitsDone(m, i, j, o))
  <1> DEFINE v == Bits(o, m.reg[i], m.reg[j])
  <1>1. v \in Int
    BY TruthInt DEF Bits
  <1>2. BitsDone(m, i, j, o) = Set(m, i, v, v # 0)
    BY DEF BitsDone
  <1> HIDE DEF v
  <1>3. (v # 0) \in BOOLEAN
    OBVIOUS
  <1>4. QED
    BY <1>1, <1>2, <1>3, SetPlain

LEMMA LogicDoneFacts ==
  ASSUME NEW m \in Machine, NEW i \in 1..Len(m.reg), NEW j \in 1..Len(m.reg),
         NEW o, NEW lbl
  PROVE  /\ LogicDone(m, i, j, o, lbl) \in Machine
         /\ Len(LogicDone(m, i, j, o, lbl).reg) = Len(m.reg)
         /\ \/ LogicDone(m, i, j, o, lbl).skip = 0
            \/ LogicDone(m, i, j, o, lbl).skip = m.skip /\ m.skip # lbl
  <1> DEFINE n == BitsDone(m, i, j, o)
             k == Emitted(n, lbl)
  <1>1. n \in Machine /\ Len(n.reg) = Len(m.reg) /\ n.skip = m.skip
    BY BitsDoneFacts DEF Plain
  <1> HIDE DEF n
  <1>2. /\ k \in Machine /\ k.reg = n.reg
        /\ k.skip = 0 \/ (k.skip = n.skip /\ n.skip # lbl)
    BY <1>1, EmittedFacts
  <1>3. LogicDone(m, i, j, o, lbl) = SetNonZero(k, i)
    BY DEF LogicDone, n
  <1> HIDE DEF k
  <1>4. Plain(k, SetNonZero(k, i))
    <2>1. k.nz \in BOOLEAN /\ Truth(k.nz) \in Int /\ i \in 1..Len(k.reg)
      BY <1>1, <1>2, TruthInt DEF Machine
    <2>2. QED
      BY <1>2, <2>1, SetPlain DEF SetNonZero
  <1>5. QED
    BY <1>1, <1>2, <1>3, <1>4 DEF Plain

LEMMA ComparedFacts ==
  ASSUME NEW m \in Machine, NEW i \in 1..Len(m.reg), NEW j \in 1..Len(m.reg),
         NEW o, NEW to \in 1..Len(m.reg)
  PROVE  Plain(m, Compared(m, i, j, o, to))
  <1>1. Truth(Holds(o, m.reg[i], m.reg[j])) \in Int /\ (m.reg[i] # m.reg[j]) \in BOOLEAN
    BY TruthInt
  <1>2. QED
    BY <1>1, SetPlain DEF Compared

LEMMA AssignDoneFacts ==
  ASSUME NEW m \in Machine, NEW i \in Nat, NEW j \in 1..Len(m.reg)
  PROVE  Plain(m, AssignDone(m, i, j))
  BY RegLen, StoreFacts DEF AssignDone, Plain

LEMMA TestedFacts ==
  ASSUME NEW m \in Machine, NEW i \in 1..Len(m.reg), NEW o, NEW lbl \in Nat
  PROVE  /\ Tested(m, i, o, lbl) \in Machine
         /\ Len(Tested(m, i, o, lbl).reg) = Len(m.reg)
         /\ \/ Tested(m, i, o, lbl).skip = m.skip
            \/ Tested(m, i, o, lbl).skip = lbl
  <1> DEFINE n == Set(m, i, m.reg[i], m.reg[i] # 0)
  <1>1. m.reg[i] \in Int /\ (m.reg[i] # 0) \in BOOLEAN
    BY RegLen
  <1>2. Plain(m, n)
    BY <1>1, SetPlain
  <1>3. Tested(m, i, o, lbl)
          = JumpIf(n, IF o = "&&" THEN m.reg[i] = 0 ELSE m.reg[i] # 0, lbl)
    BY DEF Tested
  <1> HIDE DEF n
  <1>4. QED
    BY <1>2, <1>3, JumpIfFacts DEF Plain

LEMMA BothFacts ==
  ASSUME NEW m \in Machine, Valued,
         NEW x \in Operands(Len(m.reg)), NEW y \in Operands(Len(m.reg))
  PROVE  /\ Fetch(Fetch(m, x), y) \in Machine
         /\ Fetch(Fetch(m, x), y).skip = m.skip
         /\ Len(m.reg) <= Len(Fetch(Fetch(m, x), y).reg)
         /\ RegOf(m, x) \in 1..Len(Fetch(Fetch(m, x), y).reg)
         /\ RegOf(Fetch(m, x), y) \in 1..Len(Fetch(Fetch(m, x), y).reg)
  <1> DEFINE n == Fetch(m, x)
             k == Fetch(n, y)
  <1>1. /\ n \in Machine /\ n.skip = m.skip /\ Len(m.reg) <= Len(n.reg)
        /\ RegOf(m, x) \in 1..Len(n.reg)
    BY FetchFacts
  <1> HIDE DEF n
  <1>2. Len(m.reg) \in Nat /\ Len(n.reg) \in Nat
    BY <1>1, RegLen
  <1>3. y \in Operands(Len(n.reg))
    BY <1>1, <1>2, OperandsGrow
  <1>4. /\ k \in Machine /\ k.skip = n.skip /\ Len(n.reg) <= Len(k.reg)
        /\ RegOf(n, y) \in 1..Len(k.reg)
    BY <1>1, <1>3, FetchFacts
  <1> HIDE DEF k
  <1>5. Len(k.reg) \in Nat
    BY <1>4, RegLen
  <1>6. Len(m.reg) <= Len(k.reg) /\ RegOf(m, x) \in 1..Len(k.reg)
    BY <1>1, <1>2, <1>4, <1>5
  <1>7. QED
    BY <1>1, <1>4, <1>6 DEF n, k

-----------------------------------------------------------------------------
(* The operators that can wait, and the place of chains among parentheses. *)

InfixOps  == [lex : Infix, syntax : {"infix"}]
PrefixOps == [lex : Prefix \cup {"("}, syntax : {"prefix"}]
Ops       == InfixOps \cup PrefixOps
Close     == [lex |-> ")", syntax |-> "postfix"]

InfixWeight == [o \in Ops |-> IF o.syntax = "infix" THEN 1 ELSE 0]
LogicWeight == [o \in Ops |-> IF o.lex \in Logic THEN 1 ELSE 0]
ParenWeight == [o \in Ops |-> IF o.lex = "(" THEN 1 ELSE 0]
OpenWeight  == [k \in Nat |-> IF k = 0 THEN 0 ELSE 1]

LEMMA WeightTypes ==
  /\ InfixWeight \in [Ops -> Nat] /\ LogicWeight \in [Ops -> Nat]
  /\ ParenWeight \in [Ops -> Nat] /\ OpenWeight \in [Nat -> Nat]
  BY DEF InfixWeight, LogicWeight, ParenWeight, OpenWeight

(* f[i] parentheses are open after the i-th of the waiting operators. *)
Nesting(ops, f) ==
  /\ f \in [0..Len(ops) -> Nat] /\ f[0] = 0
  /\ \A i \in 1..Len(ops) : f[i] = f[i - 1] + ParenWeight[ops[i]]
  /\ \A i, j \in 0..Len(ops) : i <= j => f[i] <= f[j]

(* A comparison waits inside k - 1 parentheses. *)
Chained(ops, f, k) == \E i \in 1..Len(ops) : ops[i].lex \in Compare /\ f[i] + 1 = k

(* There is a frame for each open parenthesis and one outside all, and a   *)
(* frame with a verdict has a comparison waiting in it, or about to.       *)
FramesAt(ops, regs, waiting) ==
  \E f : /\ Nesting(ops, f) /\ Len(regs) = f[Len(ops)] + 1
         /\ \A k \in 1..Len(regs) :
              regs[k] # 0 => (waiting /\ k = Len(regs)) \/ Chained(ops, f, k)

LEMMA NestingNone ==
  Nesting(<<>>, [i \in 0..0 |-> 0])
  <1> DEFINE f == [i \in 0..0 |-> 0]
  <1>1. f \in [0..Len(<<>>) -> Nat] /\ f[0] = 0
    OBVIOUS
  <1>2. \A i, j \in 0..Len(<<>>) : f[i] <= f[j]
    OBVIOUS
  <1> HIDE DEF f
  <1>3. Nesting(<<>>, f)
    BY <1>1, <1>2 DEF Nesting
  <1>4. QED
    BY <1>3 DEF f

LEMMA NestingAppend ==
  ASSUME NEW s \in Seq(Ops), NEW x \in Ops, NEW f, Nesting(s, f)
  PROVE  \E g : /\ Nesting(Append(s, x), g)
                /\ \A i \in 0..Len(s) : g[i] = f[i]
                /\ g[Len(s) + 1] = f[Len(s)] + ParenWeight[x]
  <1> DEFINE n == Len(s)
             r == Append(s, x)
             g == [i \in 0..n + 1 |-> IF i <= n THEN f[i] ELSE f[n] + ParenWeight[x]]
  <1>1. n \in Nat /\ Len(r) = n + 1 /\ r[n + 1] = x /\ \A i \in 1..n : r[i] = s[i]
    BY AppendProperties, LenProperties
  <1>2. /\ f \in [0..n -> Nat] /\ f[0] = 0
        /\ \A i \in 1..n : f[i] = f[i - 1] + ParenWeight[s[i]]
        /\ \A i, j \in 0..n : i <= j => f[i] <= f[j]
    BY DEF Nesting
  <1>3. ParenWeight[x] \in Nat
    BY WeightTypes
  <1> HIDE DEF n, r
  <1>4. /\ g \in [0..n + 1 -> Nat] /\ g[n + 1] = f[n] + ParenWeight[x]
        /\ \A i \in 0..n : g[i] = f[i]
    BY <1>1, <1>2, <1>3
  <1> HIDE DEF g
  <1>5. g[0] = 0
    BY <1>1, <1>2, <1>4
  <1>6. ASSUME NEW i \in 1..n + 1
        PROVE  g[i] = g[i - 1] + ParenWeight[r[i]]
    <2>1. i - 1 \in 0..n /\ (i \in 1..n \/ i = n + 1)
      BY <1>1
    <2>2. CASE i \in 1..n
      <3>1. f[i] = f[i - 1] + ParenWeight[s[i]] /\ r[i] = s[i] /\ i \in 0..n
        BY <1>1, <1>2, <2>2
      <3>2. QED
        BY <1>4, <2>1, <3>1
    <2>3. CASE i = n + 1
      <3>1. r[i] = x /\ i - 1 = n
        BY <1>1, <2>3
      <3>2. QED
        BY <1>4, <2>1, <2>3, <3>1
    <2>4. QED
      BY <2>1, <2>2, <2>3
  <1>7. ASSUME NEW i \in 0..n + 1, NEW j \in 0..n + 1, i <= j
        PROVE  g[i] <= g[j]
    <2>1. CASE j \in 0..n
      <3>1. i \in 0..n
        BY <1>1, <1>7, <2>1
      <3>2. QED
        BY <1>2, <1>4, <1>7, <2>1, <3>1
    <2>2. CASE j = n + 1 /\ i \in 0..n
      <3>1. f[i] <= f[n] /\ f[i] \in Nat /\ f[n] \in Nat
        BY <1>1, <1>2, <2>2
      <3>2. QED
        BY <1>3, <1>4, <2>2, <3>1
    <2>3. CASE i = j
      BY <1>4, <2>3
    <2>4. QED
      BY <1>1, <1>7, <2>1, <2>2, <2>3
  <1>8. Nesting(r, g)
    BY <1>1, <1>4, <1>5, <1>6, <1>7 DEF Nesting
  <1>9. QED
    BY <1>4, <1>8 DEF r, n

LEMMA NestingFront ==
  ASSUME NEW s \in Seq(Ops), s # <<>>, NEW f, Nesting(s, f)
  PROVE  \E g : /\ Nesting(Front(s), g)
                /\ \A i \in 0..Len(s) - 1 : g[i] = f[i]
                /\ f[Len(s)] = g[Len(s) - 1] + ParenWeight[Last(s)]
  <1> DEFINE n == Len(s) - 1
             r == Front(s)
             g == [i \in 0..n |-> f[i]]
  <1>1. /\ Len(s) \in Nat \ {0} /\ Last(s) = s[Len(s)] /\ Len(r) = n
        /\ \A i \in 1..n : r[i] = s[i]
    BY FrontFacts
  <1>2. /\ f \in [0..Len(s) -> Nat] /\ f[0] = 0
        /\ \A i \in 1..Len(s) : f[i] = f[i - 1] + ParenWeight[s[i]]
        /\ \A i, j \in 0..Len(s) : i <= j => f[i] <= f[j]
    BY DEF Nesting
  <1>3. n \in Nat /\ Len(s) = n + 1
    BY <1>1
  <1> HIDE DEF n, r
  <1>4. \A i \in 0..n : g[i] = f[i] /\ i \in 0..Len(s)
    BY <1>3
  <1>5. g \in [0..n -> Nat] /\ g[0] = 0
    BY <1>2, <1>3, <1>4
  <1> HIDE DEF g
  <1>6. \A i \in 1..n : g[i] = g[i - 1] + ParenWeight[r[i]]
    <2> TAKE i \in 1..n
    <2>1. i \in 0..n /\ i - 1 \in 0..n /\ i \in 1..Len(s)
      BY <1>3
    <2>2. g[i] = f[i] /\ g[i - 1] = f[i - 1] /\ r[i] = s[i]
      BY <1>1, <1>4, <2>1
    <2>3. QED
      BY <1>2, <2>1, <2>2
  <1>7. \A i, j \in 0..n : i <= j => g[i] <= g[j]
    BY <1>2, <1>4
  <1>8. Nesting(r, g)
    BY <1>1, <1>5, <1>6, <1>7 DEF Nesting
  <1>9. f[Len(s)] = g[n] + ParenWeight[Last(s)]
    <2>1. Len(s) \in 1..Len(s) /\ Len(s) - 1 = n /\ n \in 0..n
      BY <1>3
    <2>2. f[Len(s)] = f[Len(s) - 1] + ParenWeight[s[Len(s)]]
      BY <1>2, <2>1
    <2>3. QED
      BY <1>1, <1>4, <2>1, <2>2
  <1>10. QED
    BY <1>4, <1>8, <1>9 DEF n, r

LEMMA FramesNone ==
  FramesAt(<<>>, <<0>>, FALSE)
  <1> DEFINE f == [i \in 0..0 |-> 0]
  <1>1. Nesting(<<>>, f) /\ f[Len(<<>>)] = 0
    BY NestingNone
  <1> HIDE DEF f
  <1>2. Len(<<0>>) = f[Len(<<>>)] + 1 /\ \A k \in 1..Len(<<0>>) : <<0>>[k] = 0
    BY <1>1
  <1>3. QED
    BY <1>1, <1>2 DEF FramesAt

LEMMA FramesWait ==
  ASSUME NEW ops, NEW regs, FramesAt(ops, regs, FALSE), NEW w
  PROVE  FramesAt(ops, regs, w)
  BY DEF FramesAt

LEMMA FramesPush ==
  ASSUME NEW ops \in Seq(Ops), NEW regs \in Seq(Nat), NEW w, FramesAt(ops, regs, w),
         NEW x \in Ops, x.lex # "(", w => x.lex \in Compare
  PROVE  FramesAt(Append(ops, x), regs, FALSE)
  <1> DEFINE n == Len(ops)
             r == Append(ops, x)
  <1>1. PICK f : /\ Nesting(ops, f) /\ Len(regs) = f[n] + 1
                 /\ \A k \in 1..Len(regs) :
                      regs[k] # 0 => (w /\ k = Len(regs)) \/ Chained(ops, f, k)
    BY DEF FramesAt
  <1>2. PICK g : /\ Nesting(r, g) /\ \A i \in 0..n : g[i] = f[i]
                 /\ g[n + 1] = f[n] + ParenWeight[x]
    BY <1>1, NestingAppend
  <1>3. n \in Nat /\ Len(r) = n + 1 /\ r[n + 1] = x /\ \A i \in 1..n : r[i] = ops[i]
    BY AppendProperties, LenProperties
  <1>4. ParenWeight[x] = 0
    BY DEF ParenWeight
  <1>5. f[n] \in Nat
    BY <1>1, <1>3 DEF Nesting
  <1> HIDE DEF n, r
  <1>6. Len(regs) = g[Len(r)] + 1
    BY <1>1, <1>2, <1>3, <1>4, <1>5
  <1>7. ASSUME NEW k \in 1..Len(regs), regs[k] # 0
        PROVE  Chained(r, g, k)
    <2>1. CASE w /\ k = Len(regs)
      <3>1. n + 1 \in 1..Len(r) /\ r[n + 1].lex \in Compare /\ g[n + 1] + 1 = k
        BY <1>3, <1>6, <2>1
      <3>2. QED
        BY <3>1 DEF Chained
    <2>2. CASE Chained(ops, f, k)
      <3>1. PICK i \in 1..n : ops[i].lex \in Compare /\ f[i] + 1 = k
        BY <2>2 DEF Chained, n
      <3>2. i \in 1..Len(r) /\ i \in 0..n
        BY <1>3
      <3>3. r[i].lex \in Compare /\ g[i] + 1 = k
        BY <1>2, <1>3, <3>1, <3>2
      <3>4. QED
        BY <3>2, <3>3 DEF Chained
    <2>3. QED
      BY <1>1, <1>7, <2>1, <2>2
  <1>8. QED
    BY <1>2, <1>6, <1>7 DEF FramesAt, r

LEMMA FramesOpen ==
  ASSUME NEW ops \in Seq(Ops), NEW regs \in Seq(Nat), FramesAt(ops, regs, FALSE),
         NEW x \in Ops, x.lex = "("
  PROVE  FramesAt(Append(ops, x), Append(regs, 0), FALSE)
  <1> DEFINE n == Len(ops)
             r == Append(ops, x)
             h == Append(regs, 0)
  <1>1. PICK f : /\ Nesting(ops, f) /\ Len(regs) = f[n] + 1
                 /\ \A k \in 1..Len(regs) : regs[k] # 0 => Chained(ops, f, k)
    BY DEF FramesAt
  <1>2. PICK g : /\ Nesting(r, g) /\ \A i \in 0..n : g[i] = f[i]
                 /\ g[n + 1] = f[n] + ParenWeight[x]
    BY <1>1, NestingAppend
  <1>3. n \in Nat /\ Len(r) = n + 1 /\ \A i \in 1..n : r[i] = ops[i]
    BY AppendProperties, LenProperties
  <1>4. ParenWeight[x] = 1
    BY DEF ParenWeight
  <1>5. f[n] \in Nat
    BY <1>1, <1>3 DEF Nesting
  <1>6. /\ Len(regs) \in Nat /\ Len(h) = Len(regs) + 1 /\ h[Len(regs) + 1] = 0
        /\ \A k \in 1..Len(regs) : h[k] = regs[k]
    BY AppendProperties, LenProperties
  <1> HIDE DEF n, r, h
  <1>7. Len(h) = g[Len(r)] + 1
    BY <1>1, <1>2, <1>3, <1>4, <1>5, <1>6
  <1>8. ASSUME NEW k \in 1..Len(h), h[k] # 0
        PROVE  Chained(r, g, k)
    <2>1. k \in 1..Len(regs) /\ regs[k] # 0
      BY <1>6, <1>8
    <2>2. PICK i \in 1..n : ops[i].lex \in Compare /\ f[i] + 1 = k
      BY <1>1, <2>1 DEF Chained, n
    <2>3. i \in 1..Len(r) /\ i \in 0..n
      BY <1>3
    <2>4. r[i].lex \in Compare /\ g[i] + 1 = k
      BY <1>2, <1>3, <2>2, <2>3
    <2>5. QED
      BY <2>3, <2>4 DEF Chained
  <1>9. QED
    BY <1>2, <1>7, <1>8 DEF FramesAt, r, h

(* An operator other than a parenthesis is done: a comparison may leave a  *)
(* verdict behind for the one that waits, or take the verdict away.        *)
LEMMA FramesPop ==
  ASSUME NEW ops \in Seq(Ops), ops # <<>>, Last(ops).lex # "(",
         NEW regs \in Seq(Nat), NEW h \in Seq(Nat), Len(h) = Len(regs),
         \A k \in 1..Len(regs) - 1 : h[k] = regs[k],
         NEW w, FramesAt(ops, regs, w),
         \/ w
         \/ h[Len(regs)] = 0
         \/ h[Len(regs)] = regs[Len(regs)] /\ Last(ops).lex \notin Compare
  PROVE  FramesAt(Front(ops), h, w)
  <1> DEFINE n == Len(ops) - 1
             r == Front(ops)
  <1>1. PICK f : /\ Nesting(ops, f) /\ Len(regs) = f[Len(ops)] + 1
                 /\ \A k \in 1..Len(regs) :
                      regs[k] # 0 => (w /\ k = Len(regs)) \/ Chained(ops, f, k)
    BY DEF FramesAt
  <1>2. PICK g : /\ Nesting(r, g) /\ \A i \in 0..n : g[i] = f[i]
                 /\ f[Len(ops)] = g[n] + ParenWeight[Last(ops)]
    BY <1>1, NestingFront
  <1>3. /\ Len(ops) \in Nat \ {0} /\ Len(r) = n /\ Last(ops) \in Ops
        /\ Last(ops) = ops[Len(ops)] /\ \A i \in 1..n : r[i] = ops[i]
    BY FrontFacts
  <1>4. ParenWeight[Last(ops)] = 0
    BY <1>3 DEF ParenWeight
  <1>5. n \in Nat /\ Len(ops) = n + 1
    BY <1>3
  <1> HIDE DEF n, r
  <1>6. g[n] \in Nat
    <2>1. g \in [0..n -> Nat]
      BY <1>2, <1>3 DEF Nesting
    <2>2. QED
      BY <1>5, <2>1
  <1>7. Len(regs) = g[n] + 1 /\ f[n + 1] = g[n]
    BY <1>1, <1>2, <1>4, <1>5, <1>6
  <1>8. ASSUME NEW k \in 1..Len(h), h[k] # 0
        PROVE  (w /\ k = Len(h)) \/ Chained(r, g, k)
    <2>1. CASE w /\ k = Len(regs)
      BY <2>1
    <2>2. CASE ~(w /\ k = Len(regs))
      <3>1. /\ regs[k] # 0 /\ k \in 1..Len(regs)
            /\ k # Len(regs) \/ Last(ops).lex \notin Compare
        <4>1. CASE k = Len(regs)
          BY <1>8, <2>2, <4>1
        <4>2. CASE k # Len(regs)
          <5>1. k \in 1..Len(regs) - 1 /\ k \in 1..Len(regs)
            BY <1>6, <1>7, <4>2
          <5>2. QED
            BY <1>8, <4>2, <5>1
        <4>3. QED
          BY <4>1, <4>2
      <3>2. Chained(ops, f, k)
        BY <1>1, <2>2, <3>1
      <3>3. PICK i \in 1..n + 1 : ops[i].lex \in Compare /\ f[i] + 1 = k
        BY <1>5, <3>2 DEF Chained
      <3>4. i # n + 1
        BY <1>3, <1>5, <1>7, <3>1, <3>3
      <3>5. i \in 1..n /\ i \in 0..n
        BY <1>5, <3>3, <3>4
      <3>6. i \in 1..Len(r) /\ r[i].lex \in Compare /\ g[i] + 1 = k
        BY <1>2, <1>3, <3>3, <3>5
      <3>7. QED
        BY <3>6 DEF Chained
    <2>3. QED
      BY <2>1, <2>2
  <1>9. Len(h) = g[Len(r)] + 1
    BY <1>3, <1>7
  <1>10. QED
    BY <1>2, <1>8, <1>9 DEF FramesAt, r

(* The parenthesis closes: its frame has no verdict left. *)
LEMMA FramesClose ==
  ASSUME NEW ops \in Seq(Ops), ops # <<>>, Last(ops).lex = "(",
         NEW regs \in Seq(Nat), FramesAt(ops, regs, FALSE)
  PROVE  /\ regs # <<>> /\ Last(regs) = 0 /\ Len(regs) > 1
         /\ FramesAt(Front(ops), Front(regs), FALSE)
  <1> DEFINE n == Len(ops) - 1
             r == Front(ops)
             h == Front(regs)
  <1>1. PICK f : /\ Nesting(ops, f) /\ Len(regs) = f[Len(ops)] + 1
                 /\ \A k \in 1..Len(regs) : regs[k] # 0 => Chained(ops, f, k)
    BY DEF FramesAt
  <1>2. PICK g : /\ Nesting(r, g) /\ \A i \in 0..n : g[i] = f[i]
                 /\ f[Len(ops)] = g[n] + ParenWeight[Last(ops)]
    BY <1>1, NestingFront
  <1>3. /\ Len(ops) \in Nat \ {0} /\ Len(r) = n /\ Last(ops) \in Ops
        /\ Last(ops) = ops[Len(ops)] /\ \A i \in 1..n : r[i] = ops[i]
    BY FrontFacts
  <1>4. ParenWeight[Last(ops)] = 1
    BY <1>3 DEF ParenWeight
  <1>5. n \in Nat /\ Len(ops) = n + 1
    BY <1>3
  <1> HIDE DEF n, r
  <1>6. g[n] \in Nat /\ \A i \in 0..n : g[i] \in Nat /\ g[i] <= g[n]
    <2>1. /\ g \in [0..n -> Nat]
          /\ \A i, j \in 0..n : i <= j => g[i] <= g[j]
      BY <1>2, <1>3 DEF Nesting
    <2>2. n \in 0..n /\ \A i \in 0..n : i <= n
      BY <1>5
    <2>3. QED
      BY <2>1, <2>2
  <1>7. Len(regs) = g[n] + 2 /\ f[n + 1] = g[n] + 1
    BY <1>1, <1>2, <1>4, <1>5, <1>6
  <1>8. regs # <<>> /\ Len(regs) > 1
    BY <1>6, <1>7, EmptySeq
  <1>9. /\ Len(h) = Len(regs) - 1 /\ Last(regs) = regs[Len(regs)]
        /\ \A k \in 1..Len(regs) - 1 : h[k] = regs[k]
    BY <1>8, FrontFacts
  <1> HIDE DEF h
  <1>10. ASSUME NEW k \in 1..Len(regs), regs[k] # 0
         PROVE  Chained(r, g, k) /\ k # Len(regs)
    <2>1. PICK i \in 1..n + 1 : ops[i].lex \in Compare /\ f[i] + 1 = k
      BY <1>1, <1>5, <1>10 DEF Chained
    <2>2. ops[n + 1].lex = "("
      BY <1>3, <1>5
    <2>3. i # n + 1
      BY <2>1, <2>2 DEF Compare
    <2>4. i \in 1..n /\ i \in 0..n
      BY <1>5, <2>3
    <2>5. i \in 1..Len(r) /\ r[i].lex \in Compare /\ g[i] + 1 = k
      BY <1>2, <1>3, <2>1, <2>4
    <2>6. Chained(r, g, k)
      BY <2>5 DEF Chained
    <2>7. k # Len(regs)
      BY <1>6, <1>7, <2>4, <2>5
    <2>8. QED
      BY <2>6, <2>7
  <1>11. Last(regs) = 0
    <2>1. Len(regs) \in 1..Len(regs)
      BY <1>6, <1>7
    <2>2. QED
      BY <1>9, <1>10, <2>1
  <1>12. ASSUME NEW k \in 1..Len(h), h[k] # 0
         PROVE  Chained(r, g, k)
    <2> DEFINE m == Len(regs)
               p == Len(h)
    <2>1a. m \in Nat /\ p = m - 1 /\ k \in 1..p
      BY <1>6, <1>7, <1>9, <1>12
    <2>1b. k \in 1..m - 1 /\ k \in 1..m
      <3> HIDE DEF m, p
      <3>1. QED
        BY <2>1a
    <2>1. k \in 1..Len(regs) /\ h[k] = regs[k]
      BY <1>9, <2>1b
    <2>2. QED
      BY <1>10, <1>12, <2>1
  <1>13. Len(h) = g[Len(r)] + 1
    BY <1>3, <1>6, <1>7, <1>9
  <1>14. FramesAt(r, h, FALSE)
    BY <1>2, <1>12, <1>13 DEF FramesAt
  <1>15. QED
    BY <1>8, <1>11, <1>14 DEF r, h

(* Without a parenthesis there is one frame, and with nothing waiting no   *)
(* frame has a verdict.                                                    *)
LEMMA FramesShallow ==
  ASSUME NEW regs \in Seq(Nat), NEW w, FramesAt(<<>>, regs, w)
  PROVE  Len(regs) = 1 /\ (~w => regs[1] = 0)
  <1>1. PICK f : /\ Nesting(<<>>, f) /\ Len(regs) = f[0] + 1
                 /\ \A k \in 1..Len(regs) :
                      regs[k] # 0 => (w /\ k = Len(regs)) \/ Chained(<<>>, f, k)
    BY DEF FramesAt
  <1>2. f[0] = 0
    BY <1>1 DEF Nesting
  <1>3. ~Chained(<<>>, f, 1)
    BY DEF Chained
  <1>4. QED
    BY <1>1, <1>2, <1>3

(* At the end of an expression without open chains, none is counted. *)
LEMMA TallyZero ==
  ASSUME NEW s \in Seq(Nat), Len(s) = 1, s[1] = 0, NEW t, Tally(s, OpenWeight, t)
  PROVE  t = 0
  BY DEF Tally, OpenWeight

(* Every infix operator that waits, and every verdict kept, has an operand *)
(* of its own below those the parser has just read; n counts them.         *)
CountsAt(ops, regs, lbls, n) ==
  \E a, b : /\ Tally(ops, InfixWeight, a) /\ Tally(regs, OpenWeight, b)
            /\ n = a + b /\ lbls \in 0..b

LEMMA CountsNone ==
  CountsAt(<<>>, <<0>>, 0, 0)
  <1>1. Tally(<<>>, InfixWeight, 0) /\ Tally(<<>>, OpenWeight, 0)
    BY TallyNone
  <1>2. <<>> \in Seq(Nat) /\ Append(<<>>, 0) = <<0>> /\ OpenWeight[0] = 0
    BY DEF OpenWeight
  <1>3. Tally(<<0>>, OpenWeight, 0 + 0)
    BY <1>1, <1>2, WeightTypes, TallyAppend
  <1>4. 0 + 0 = 0 /\ 0 \in 0..0
    OBVIOUS
  <1>5. Tally(<<0>>, OpenWeight, 0)
    BY <1>3, <1>4
  <1>6. QED
    BY <1>1, <1>4, <1>5, Zenon DEF CountsAt

LEMMA CountsNat ==
  ASSUME NEW ops \in Seq(Ops), NEW regs \in Seq(Nat), NEW lbls, NEW n,
         CountsAt(ops, regs, lbls, n)
  PROVE  n \in Nat /\ lbls \in Nat /\ lbls <= n
  <1>1. PICK a, b : /\ Tally(ops, InfixWeight, a) /\ Tally(regs, OpenWeight, b)
                    /\ n = a + b /\ lbls \in 0..b
    BY DEF CountsAt
  <1>2. a \in Nat /\ b \in Nat
    BY <1>1, TallyNat
  <1>3. QED
    BY <1>1, <1>2

LEMMA CountsPush ==
  ASSUME NEW ops \in Seq(Ops), NEW regs \in Seq(Nat), NEW lbls, NEW n,
         CountsAt(ops, regs, lbls, n), NEW x \in Ops
  PROVE  CountsAt(Append(ops, x), regs, lbls, n + InfixWeight[x])
  <1>1. PICK a, b : /\ Tally(ops, InfixWeight, a) /\ Tally(regs, OpenWeight, b)
                    /\ n = a + b /\ lbls \in 0..b
    BY DEF CountsAt
  <1>2. InfixWeight[x] \in Nat /\ a \in Nat /\ b \in Nat
    BY <1>1, WeightTypes, TallyNat
  <1>3. Tally(Append(ops, x), InfixWeight, a + InfixWeight[x])
    BY <1>1, WeightTypes, TallyAppend
  <1>4. n + InfixWeight[x] = (a + InfixWeight[x]) + b
    BY <1>1, <1>2
  <1>5. QED
    BY <1>1, <1>3, <1>4 DEF CountsAt

LEMMA CountsPop ==
  ASSUME NEW ops \in Seq(Ops), ops # <<>>, NEW regs \in Seq(Nat), NEW lbls, NEW n,
         CountsAt(ops, regs, lbls, n)
  PROVE  CountsAt(Front(ops), regs, lbls, n - InfixWeight[Last(ops)])
  <1>1. PICK a, b : /\ Tally(ops, InfixWeight, a) /\ Tally(regs, OpenWeight, b)
                    /\ n = a + b /\ lbls \in 0..b
    BY DEF CountsAt
  <1>2. a \in Nat /\ b \in Nat
    BY <1>1, TallyNat
  <1>3. /\ InfixWeight[Last(ops)] \in Nat
        /\ Tally(Front(ops), InfixWeight, a - InfixWeight[Last(ops)])
    BY <1>1, WeightTypes, TallyFront
  <1>4. n - InfixWeight[Last(ops)] = (a - InfixWeight[Last(ops)]) + b
    BY <1>1, <1>2, <1>3
  <1>5. QED
    BY <1>1, <1>3, <1>4 DEF CountsAt

LEMMA CountsSetTop ==
  ASSUME NEW ops \in Seq(Ops), NEW regs \in Seq(Nat), regs # <<>>,
         NEW lbls, NEW n, CountsAt(ops, regs, lbls, n), NEW v \in Nat
  PROVE  LET d == OpenWeight[v] - OpenWeight[Last(regs)]
         IN  \A k \in Nat : k <= lbls + d \/ k = 0 =>
               CountsAt(ops, SetTop(regs, v), k, n + d)
  <1> DEFINE d == OpenWeight[v] - OpenWeight[Last(regs)]
  <1>1. PICK a, b : /\ Tally(ops, InfixWeight, a) /\ Tally(regs, OpenWeight, b)
                    /\ n = a + b /\ lbls \in 0..b
    BY DEF CountsAt
  <1>2. a \in Nat /\ b \in Nat
    BY <1>1, TallyNat
  <1>3. Last(regs) \in Nat
    BY FrontFacts
  <1>4. OpenWeight[v] \in Nat /\ OpenWeight[Last(regs)] \in Nat
    BY <1>3, WeightTypes
  <1>5. Tally(SetTop(regs, v), OpenWeight, b - OpenWeight[Last(regs)] + OpenWeight[v])
    BY <1>1, WeightTypes, TallySetTop
  <1>6. b - OpenWeight[Last(regs)] + OpenWeight[v] = b + d /\ n + d = a + (b + d)
    <2> DEFINE new == OpenWeight[v]
               old == OpenWeight[Last(regs)]
    <2>1. n = a + b
      BY <1>1
    <2>2. a \in Nat /\ b \in Nat /\ new \in Nat /\ old \in Nat
      BY <1>2, <1>4
    <2> HIDE DEF new, old
    <2>3. b - old + new = b + (new - old) /\ n + (new - old) = a + (b + (new - old))
      BY <2>1, <2>2
    <2>4. QED
      BY <2>3 DEF new, old
  <1>7. Tally(SetTop(regs, v), OpenWeight, b + d)
    BY <1>5, <1>6
  <1>8. d \in Int /\ b + d \in Nat
    <2> DEFINE new == OpenWeight[v]
               old == OpenWeight[Last(regs)]
    <2>1. b - old \in Nat
      BY <1>1, WeightTypes, TallySetTop
    <2>2. b \in Nat /\ new \in Nat /\ old \in Nat
      BY <1>2, <1>4
    <2> HIDE DEF new, old
    <2>3. new - old \in Int /\ b + (new - old) \in Nat
      BY <2>1, <2>2
    <2>4. QED
      BY <2>3 DEF new, old
  <1> HIDE DEF d
  <1>9. ASSUME NEW k \in Nat, k <= lbls + d \/ k = 0
        PROVE  CountsAt(ops, SetTop(regs, v), k, n + d)
    <2>1. k \in 0..b + d
      BY <1>1, <1>2, <1>8, <1>9
    <2>2. QED
      BY <1>1, <1>6, <1>7, <2>1 DEF CountsAt
  <1>10. QED
    BY <1>9 DEF d

LEMMA CountsOpen ==
  ASSUME NEW ops \in Seq(Ops), NEW regs \in Seq(Nat), NEW lbls, NEW n,
         CountsAt(ops, regs, lbls, n)
  PROVE  CountsAt(ops, Append(regs, 0), lbls, n)
  <1>1. PICK a, b : /\ Tally(ops, InfixWeight, a) /\ Tally(regs, OpenWeight, b)
                    /\ n = a + b /\ lbls \in 0..b
    BY DEF CountsAt
  <1>2. b \in Nat /\ OpenWeight[0] = 0
    BY <1>1, TallyNat DEF OpenWeight
  <1>3. Tally(Append(regs, 0), OpenWeight, b + OpenWeight[0])
    BY <1>1, WeightTypes, TallyAppend
  <1>4. QED
    BY <1>1, <1>2, <1>3 DEF CountsAt

LEMMA CountsClose ==
  ASSUME NEW ops \in Seq(Ops), NEW regs \in Seq(Nat), regs # <<>>, Last(regs) = 0,
         NEW lbls, NEW n, CountsAt(ops, regs, lbls, n)
  PROVE  CountsAt(ops, Front(regs), lbls, n)
  <1>1. PICK a, b : /\ Tally(ops, InfixWeight, a) /\ Tally(regs, OpenWeight, b)
                    /\ n = a + b /\ lbls \in 0..b
    BY DEF CountsAt
  <1>2. b \in Nat /\ OpenWeight[Last(regs)] = 0
    BY <1>1, TallyNat DEF OpenWeight
  <1>3. Tally(Front(regs), OpenWeight, b - OpenWeight[Last(regs)])
    BY <1>1, WeightTypes, TallyFront
  <1>4. QED
    BY <1>1, <1>2, <1>3 DEF CountsAt

-----------------------------------------------------------------------------
(* Operands are taken off their stack and a result put on it. *)

LEMMA SeqGrow ==
  ASSUME NEW S, NEW T, S \subseteq T, NEW s \in Seq(S)
  PROVE  s \in Seq(T)
  <1>1. Len(s) \in Nat /\ s \in [1..Len(s) -> S]
    BY LenProperties
  <1>2. s \in [1..Len(s) -> T]
    BY <1>1
  <1>3. QED
    BY <1>1, <1>2

LEMMA Dropped ==
  ASSUME NEW S, NEW s \in Seq(S), NEW n \in Nat, n <= Len(s)
  PROVE  SubSeq(s, 1, n) \in Seq(S) /\ Len(SubSeq(s, 1, n)) = n
  <1> DEFINE q == SubSeq(s, 1, n)
  <1>1. Len(s) \in Nat /\ \A i \in 1..Len(s) : s[i] \in S
    BY LenProperties, ElementOfSeq
  <1>2. \A i \in 1..n : s[i] \in S
    BY <1>1
  <1>3. q \in Seq(S) /\ Len(q) = IF 1 <= n THEN n - 1 + 1 ELSE 0
    BY <1>2, SubSeqProperties
  <1>4. QED
    BY <1>3

LEMMA Pushed ==
  ASSUME NEW S, NEW s \in Seq(S), NEW n \in Nat, n <= Len(s),
         NEW T, S \subseteq T, NEW x \in T
  PROVE  /\ Append(SubSeq(s, 1, n), x) \in Seq(T)
         /\ Len(Append(SubSeq(s, 1, n), x)) = n + 1
  <1> DEFINE q == SubSeq(s, 1, n)
  <1>1. q \in Seq(S) /\ Len(q) = n
    BY Dropped
  <1>2. q \in Seq(T)
    BY <1>1, SeqGrow
  <1> HIDE DEF q
  <1>3. QED
    BY <1>1, <1>2, AppendProperties DEF q

-----------------------------------------------------------------------------
(* The invariant. *)

Going   == pc \in {"read", "place", "end"}
Closing == pc = "place" /\ op.lex = ")"
Waiting == pc = "place" /\ op.lex \in Compare
Whole   == pc \in {"read", "place"} \/ (pc = "end" /\ paren = 0)
Atoms   == IF isAfterAtom THEN 1 ELSE 0

Control ==
  /\ pc \in {"read", "place", "end", "done", "none", "error"}
  /\ isAfterAtom \in BOOLEAN /\ (pc \in {"place", "end", "done"} => isAfterAtom)
  /\ pc = "place" => op \in InfixOps \cup {Close}
  /\ pc = "end" => op = NoOp
  /\ odd \subseteq {"unclosed", "bits", "stolen"}

Typed ==
  /\ lexemes \in Seq(Lexemes) /\ Valued /\ labelCnt \in Nat
  /\ pOpStk \in Seq(Ops) /\ run \in Machine
  /\ pTkStk \in Seq(Operands(Len(run.reg)))
  /\ cmpRegStk \in Seq(0..Len(run.reg)) /\ cmpRegStk # <<>>
  /\ cmpLblStk \in Seq(Nat) /\ shortCircLblStk \in Seq(Nat)

Bounded    == paren \in Nat /\ paren <= MaxParen /\ paren <= Used({"("})
Counted    == Going => CountsAt(pOpStk, cmpRegStk, Len(cmpLblStk), Len(pTkStk) - Atoms)
Logical    == Tally(pOpStk, LogicWeight, Len(shortCircLblStk))
Structured == Whole => FramesAt(pOpStk, cmpRegStk, Waiting)
Linked     ==
  /\ pc \in {"read", "place"} =>
       Len(cmpRegStk) - 1 = IF Closing THEN paren + 1 ELSE paren
  /\ pc = "end" /\ paren = 0 => Len(cmpRegStk) = 1
Finished   ==
  pc = "done" =>
    /\ shortCircLblStk = <<>>
    /\ paren = 0 => Len(pTkStk) = 1 /\ cmpLblStk = <<>>

IInv == /\ Control /\ Typed /\ Bounded /\ Counted /\ Logical /\ Structured
        /\ Linked /\ Finished /\ JumpHasLabel

LEMMA InitInv ==
  Init => IInv
  <1> SUFFICES ASSUME Init PROVE IInv
    OBVIOUS
  <1> USE DEF Init
  <1>1. Control
    BY DEF Control
  <1>2. Typed
    <2>1. run \in Machine /\ Len(run.reg) = 0
      BY DEF NoRun, Machine
    <2>2. Valued
      BY InputsAssumption DEF Valued
    <2>3. cmpRegStk \in Seq(0..0) /\ cmpRegStk # <<>>
      OBVIOUS
    <2>4. QED
      BY <2>1, <2>2, <2>3 DEF Typed
  <1>3. Bounded
    <2>1. {i \in DOMAIN lexemes : lexemes[i] \in {"("}} = {}
      OBVIOUS
    <2>2. Used({"("}) = 0
      BY <2>1, FS_EmptySet DEF Used
    <2>3. QED
      BY <2>2, InputsAssumption DEF Bounded
  <1>4. Counted
    <2>1. Len(cmpLblStk) = 0 /\ Len(pTkStk) - Atoms = 0
      BY DEF Atoms
    <2>2. QED
      BY <2>1, CountsNone DEF Counted
  <1>5. Logical
    BY TallyNone DEF Logical
  <1>6. Structured
    <2>1. ~Waiting
      BY DEF Waiting
    <2>2. Waiting = FALSE
      BY <2>1 DEF Waiting
    <2>3. QED
      BY <2>2, FramesNone DEF Structured
  <1>7. Linked
    BY DEF Linked, Closing
  <1>8. Finished /\ JumpHasLabel
    BY DEF Finished, JumpHasLabel, NoRun
  <1>9. QED
    BY <1>1, <1>2, <1>3, <1>4, <1>5, <1>6, <1>7, <1>8 DEF IInv

-----------------------------------------------------------------------------
(* Reading. *)

LEMMA CmpRegNat ==
  ASSUME Typed
  PROVE  /\ cmpRegStk \in Seq(Nat) /\ Len(cmpRegStk) \in Nat
         /\ Last(cmpRegStk) \in 0..Len(run.reg) /\ Len(run.reg) \in Nat
  <1>1. Len(run.reg) \in Nat
    BY RegLen DEF Typed
  <1>2. 0..Len(run.reg) \subseteq Nat
    BY <1>1
  <1>3. cmpRegStk \in Seq(0..Len(run.reg)) /\ cmpRegStk # <<>>
    BY DEF Typed
  <1>4. cmpRegStk \in Seq(Nat)
    BY <1>2, <1>3, SeqGrow
  <1>5. Last(cmpRegStk) \in 0..Len(run.reg)
    BY <1>3, FrontFacts
  <1>6. QED
    BY <1>1, <1>4, <1>5, LenProperties

(* One lexeme more: one more occurrence of it, and no less of any. *)
LEMMA UsedGrows ==
  ASSUME Typed, NEW x \in Lexemes, Read(x)
  PROVE  /\ lexemes' \in Seq(Lexemes)
         /\ Used({"("}) \in Nat /\ Used({"("})' \in Nat
         /\ Used({"("}) <= Used({"("})'
         /\ x = "(" => Used({"("})' = Used({"("}) + 1
  <1> DEFINE n == Len(lexemes)
             r == Append(lexemes, x)
             A == {i \in 1..n : lexemes[i] = "("}
             B == {i \in 1..n + 1 : r[i] = "("}
  <1>1. lexemes' = r /\ lexemes \in Seq(Lexemes)
    BY DEF Read, Typed
  <1>2. /\ n \in Nat /\ DOMAIN lexemes = 1..n
    BY <1>1, LenProperties
  <1>3. /\ r \in Seq(Lexemes) /\ Len(r) = n + 1 /\ r[n + 1] = x
        /\ \A i \in 1..n : r[i] = lexemes[i]
    BY <1>1, AppendProperties
  <1>4. DOMAIN r = 1..n + 1
    BY <1>3, LenProperties
  <1>5. Used({"("}) = Cardinality(A)
    BY <1>2 DEF Used
  <1>6. Used({"("})' = Cardinality(B)
    BY <1>1, <1>4 DEF Used
  <1> HIDE DEF r, n
  <1>7. B = IF x = "(" THEN A \cup {n + 1} ELSE A
    <2>1. \A i \in 1..n : i \in A <=> i \in B
      BY <1>2, <1>3
    <2>2. n + 1 \in B <=> x = "("
      BY <1>2, <1>3
    <2>3. \A i : i \in 1..n + 1 <=> i \in 1..n \/ i = n + 1
      BY <1>2
    <2>4. A \subseteq 1..n /\ B \subseteq 1..n + 1
      OBVIOUS
    <2> HIDE DEF A, B
    <2>5. CASE x = "("
      <3>1. \A i : i \in B <=> i \in A \cup {n + 1}
        BY <2>1, <2>2, <2>3, <2>4, <2>5
      <3>2. B = A \cup {n + 1}
        BY <3>1
      <3>3. QED
        BY <2>5, <3>2
    <2>6. CASE x # "("
      <3>1. \A i : i \in B <=> i \in A
        BY <2>1, <2>2, <2>3, <2>4, <2>6
      <3>2. B = A
        BY <3>1
      <3>3. QED
        BY <2>6, <3>2
    <2>7. QED
      BY <2>5, <2>6
  <1>8. n + 1 \notin A /\ A \subseteq 1..n
    BY <1>2
  <1> HIDE DEF A, B
  <1>9. IsFiniteSet(A)
    <2>1. IsFiniteSet(1..n)
      BY <1>2, FS_Interval
    <2>2. QED
      BY <1>8, <2>1, FS_Subset
  <1>10. Cardinality(A) \in Nat /\ Cardinality(A \cup {n + 1}) = Cardinality(A) + 1
    BY <1>8, <1>9, FS_AddElement, FS_CardinalityType
  <1>11. Cardinality(B) = IF x = "(" THEN Cardinality(A) + 1 ELSE Cardinality(A)
    BY <1>7, <1>10
  <1>12. QED
    BY <1>1, <1>3, <1>5, <1>6, <1>10, <1>11

LEMMA AtMost ==
  ASSUME NEW a \in Nat, NEW b \in Nat, NEW c \in Nat, a <= b, b <= c
  PROVE  a <= c
  OBVIOUS

LEMMA AtomInv ==
  IInv /\ Atom => IInv'
  <1> SUFFICES ASSUME IInv, Atom PROVE IInv'
    OBVIOUS
  <1>0. Control /\ Typed /\ Bounded /\ Counted /\ Logical /\ Structured /\ Linked
        /\ Finished /\ JumpHasLabel
    BY DEF IInv
  <1>1. PICK i \in DOMAIN Names :
          Read(Names[i]) /\ pTkStk' = Append(pTkStk, Name(i))
    BY DEF Atom
  <1>2. /\ pc = "read" /\ ~isAfterAtom /\ isAfterAtom' = TRUE
        /\ UNCHANGED <<value, stale, pc, paren, pOpStk, cmpRegStk, cmpLblStk,
                       shortCircLblStk, labelCnt, op, run, odd>>
    BY DEF Atom, Keep, chains
  <1>3. lexemes' \in Seq(Lexemes) /\ paren <= Used({"("})'
    <2>1. Names[i] \in Lexemes
      BY DEF Lexemes, Range
    <2>2. /\ lexemes' \in Seq(Lexemes) /\ Used({"("}) <= Used({"("})'
          /\ Used({"("}) \in Nat /\ Used({"("})' \in Nat
      BY <1>0, <1>1, <2>1, UsedGrows
    <2>3. paren \in Nat /\ paren <= Used({"("})
      BY <1>0 DEF Bounded
    <2>4. QED
      BY <2>2, <2>3
  <1>4. /\ pTkStk' \in Seq(Operands(Len(run.reg)))
        /\ Len(pTkStk') = Len(pTkStk) + 1 /\ Len(pTkStk) \in Nat
    <2>1. Name(i) \in Operands(Len(run.reg))
      BY NameFacts
    <2>2. pTkStk \in Seq(Operands(Len(run.reg)))
      BY <1>0 DEF Typed
    <2>3. QED
      BY <1>1, <2>1, <2>2, AppendProperties, LenProperties
  <1>5. Control'
    BY <1>0, <1>2 DEF Control
  <1>6. Typed'
    BY <1>0, <1>2, <1>3, <1>4 DEF Typed, Valued
  <1>7. Bounded'
    BY <1>0, <1>2, <1>3 DEF Bounded
  <1>8. Counted'
    <2>1. CountsAt(pOpStk, cmpRegStk, Len(cmpLblStk), Len(pTkStk) - Atoms)
      BY <1>0, <1>2 DEF Counted, Going
    <2>2. Len(pTkStk) - Atoms = Len(pTkStk') - Atoms'
      BY <1>2, <1>4 DEF Atoms
    <2>3. QED
      BY <1>2, <2>1, <2>2 DEF Counted
  <1>9. Logical' /\ JumpHasLabel'
    BY <1>0, <1>2 DEF Logical, JumpHasLabel
  <1>10. Structured'
    BY <1>0, <1>2 DEF Structured, Whole, Waiting
  <1>11. Linked' /\ Finished'
    BY <1>0, <1>2 DEF Linked, Closing, Finished
  <1>12. QED
    BY <1>5, <1>6, <1>7, <1>8, <1>9, <1>10, <1>11 DEF IInv

LEMMA PrefixOpInv ==
  IInv /\ PrefixOp => IInv'
  <1> SUFFICES ASSUME IInv, PrefixOp PROVE IInv'
    OBVIOUS
  <1>0. Control /\ Typed /\ Bounded /\ Counted /\ Logical /\ Structured /\ Linked
        /\ Finished /\ JumpHasLabel
    BY DEF IInv
  <1>1. PICK x \in Prefix \cup {"("} :
          /\ x = "(" => Used({"("}) < MaxParen
          /\ Read(x)
          /\ pOpStk' = Append(pOpStk, [lex |-> x, syntax |-> "prefix"])
          /\ paren' = IF x = "(" THEN paren + 1 ELSE paren
          /\ cmpRegStk' = IF x = "(" THEN Append(cmpRegStk, 0) ELSE cmpRegStk
    BY DEF PrefixOp
  <1> DEFINE o == [lex |-> x, syntax |-> "prefix"]
  <1>2. /\ pc = "read" /\ ~isAfterAtom
        /\ UNCHANGED <<value, stale, pc, isAfterAtom, pTkStk, cmpLblStk,
                       shortCircLblStk, labelCnt, op, run, odd>>
    BY DEF PrefixOp, Keep
  <1>3. /\ lexemes' \in Seq(Lexemes)
        /\ Used({"("}) \in Nat /\ Used({"("})' \in Nat
        /\ Used({"("}) <= Used({"("})'
        /\ x = "(" => Used({"("})' = Used({"("}) + 1
    <2>1. x \in Lexemes
      BY DEF Lexemes
    <2>2. QED
      BY <1>0, <1>1, <2>1, UsedGrows
  <1>4. /\ o \in Ops /\ o.lex = x /\ InfixWeight[o] = 0 /\ LogicWeight[o] = 0
    BY DEF Ops, PrefixOps, InfixWeight, LogicWeight, Prefix, Logic
  <1>5. /\ pOpStk \in Seq(Ops) /\ cmpRegStk \in Seq(Nat) /\ Len(cmpRegStk) \in Nat
        /\ cmpRegStk \in Seq(0..Len(run.reg)) /\ cmpRegStk # <<>>
        /\ 0 \in 0..Len(run.reg)
    BY <1>0, CmpRegNat DEF Typed
  <1>6. pOpStk' = Append(pOpStk, o)
    BY <1>1
  <1> HIDE DEF o
  <1>7. pOpStk' \in Seq(Ops)
    BY <1>4, <1>5, <1>6, AppendProperties
  <1>8. /\ cmpRegStk' \in Seq(0..Len(run.reg)) /\ cmpRegStk' # <<>>
        /\ Len(cmpRegStk') = IF x = "(" THEN Len(cmpRegStk) + 1 ELSE Len(cmpRegStk)
    <2> DEFINE h == Append(cmpRegStk, 0)
    <2>1. h \in Seq(0..Len(run.reg)) /\ Len(h) = Len(cmpRegStk) + 1 /\ h # <<>>
      BY <1>5, AppendProperties
    <2>2. cmpRegStk' = IF x = "(" THEN h ELSE cmpRegStk
      BY <1>1
    <2> HIDE DEF h
    <2>3. QED
      BY <1>5, <2>1, <2>2
  <1>9. Control'
    BY <1>0, <1>2 DEF Control
  <1>10. Typed'
    BY <1>0, <1>2, <1>3, <1>7, <1>8 DEF Typed, Valued
  <1>11. Bounded'
    BY <1>0, <1>1, <1>3, InputsAssumption DEF Bounded
  <1>12. Counted'
    <2>1. CountsAt(pOpStk, cmpRegStk, Len(cmpLblStk), Len(pTkStk) - Atoms)
      BY <1>0, <1>2 DEF Counted, Going
    <2>2. Len(pTkStk) - Atoms \in Nat
      BY <1>5, <2>1, CountsNat
    <2>3. CountsAt(pOpStk', cmpRegStk, Len(cmpLblStk), Len(pTkStk) - Atoms)
      <3>1. CountsAt(Append(pOpStk, o), cmpRegStk, Len(cmpLblStk),
                     (Len(pTkStk) - Atoms) + InfixWeight[o])
        BY <1>4, <1>5, <2>1, CountsPush
      <3>2. (Len(pTkStk) - Atoms) + InfixWeight[o] = Len(pTkStk) - Atoms
        BY <1>4, <2>2
      <3>3. QED
        BY <1>6, <3>1, <3>2
    <2>4. CountsAt(pOpStk', cmpRegStk', Len(cmpLblStk), Len(pTkStk) - Atoms)
      BY <1>1, <1>5, <1>7, <2>3, CountsOpen
    <2>5. Atoms' = Atoms
      BY <1>2 DEF Atoms
    <2>6. QED
      BY <1>2, <2>4, <2>5 DEF Counted
  <1>13. Logical'
    <2>1. Tally(pOpStk, LogicWeight, Len(shortCircLblStk))
      BY <1>0 DEF Logical
    <2>2. Tally(pOpStk', LogicWeight, Len(shortCircLblStk) + 0)
      BY <1>4, <1>5, <1>6, <2>1, WeightTypes, TallyAppend
    <2>3. Len(shortCircLblStk) + 0 = Len(shortCircLblStk)
      BY <1>0, LenProperties DEF Typed
    <2>4. QED
      BY <1>2, <2>2, <2>3 DEF Logical
  <1>14. Structured'
    <2>1. FramesAt(pOpStk, cmpRegStk, Waiting) /\ Waiting = FALSE /\ Waiting' = FALSE
      BY <1>0, <1>2 DEF Structured, Whole, Waiting
    <2>2. FramesAt(pOpStk, cmpRegStk, FALSE)
      BY <2>1
    <2>3. CASE x = "("
      BY <1>1, <1>4, <1>5, <1>6, <2>1, <2>2, <2>3, FramesOpen DEF Structured
    <2>4. CASE x # "("
      BY <1>1, <1>4, <1>5, <1>6, <2>1, <2>2, <2>4, FramesPush DEF Structured
    <2>5. QED
      BY <2>3, <2>4
  <1>15. Linked'
    <2>1. Len(cmpRegStk) - 1 = paren /\ paren \in Nat
      BY <1>0, <1>2 DEF Linked, Closing, Bounded
    <2>2. Len(cmpRegStk') - 1 = paren'
      BY <1>1, <1>5, <1>8, <2>1
    <2>3. QED
      BY <1>2, <2>2 DEF Linked, Closing
  <1>16. Finished' /\ JumpHasLabel'
    BY <1>0, <1>2 DEF Finished, JumpHasLabel
  <1>17. QED
    BY <1>9, <1>10, <1>11, <1>12, <1>13, <1>14, <1>15, <1>16 DEF IInv

LEMMA NotAnAtomInv ==
  IInv /\ NotAnAtom => IInv'
  <1> SUFFICES ASSUME IInv, NotAnAtom PROVE IInv'
    OBVIOUS
  <1>0. Control /\ Typed /\ Bounded /\ Logical /\ JumpHasLabel
    BY DEF IInv
  <1>1. PICK x \in {")", ";"} : Read(x)
    BY DEF NotAnAtom
  <1>2. /\ pc' \in {"error", "none"}
        /\ UNCHANGED <<value, stale, isAfterAtom, paren, pOpStk, pTkStk, cmpRegStk,
                       cmpLblStk, shortCircLblStk, labelCnt, op, run, odd>>
    BY DEF NotAnAtom, Keep, parsing, chains
  <1>3. lexemes' \in Seq(Lexemes) /\ paren <= Used({"("})'
    <2>1. x \in Lexemes
      BY DEF Lexemes
    <2>2. /\ lexemes' \in Seq(Lexemes) /\ Used({"("}) <= Used({"("})'
          /\ Used({"("}) \in Nat /\ Used({"("})' \in Nat
      BY <1>0, <1>1, <2>1, UsedGrows
    <2>3. paren \in Nat /\ paren <= Used({"("})
      BY <1>0 DEF Bounded
    <2>4. paren <= Used({"("})'
      BY <2>2, <2>3, AtMost
    <2>5. QED
      BY <2>2, <2>4
  <1>4. Control'
    BY <1>0, <1>2 DEF Control
  <1>5. Typed'
    BY <1>0, <1>2, <1>3 DEF Typed, Valued
  <1>6. Bounded'
    BY <1>0, <1>2, <1>3 DEF Bounded
  <1>7. Counted' /\ Structured' /\ Linked' /\ Finished'
    BY <1>2 DEF Counted, Going, Structured, Whole, Linked, Finished
  <1>8. Logical' /\ JumpHasLabel'
    BY <1>0, <1>2 DEF Logical, JumpHasLabel
  <1>9. QED
    BY <1>4, <1>5, <1>6, <1>7, <1>8 DEF IInv

LEMMA InfixOpInv ==
  IInv /\ InfixOp => IInv'
  <1> SUFFICES ASSUME IInv, InfixOp PROVE IInv'
    OBVIOUS
  <1>0. Control /\ Typed /\ Bounded /\ Counted /\ Logical /\ Structured /\ Linked
        /\ JumpHasLabel
    BY DEF IInv
  <1>1. PICK x \in Infix : Read(x) /\ op' = [lex |-> x, syntax |-> "infix"]
    BY DEF InfixOp
  <1>2. /\ pc = "read" /\ isAfterAtom /\ pc' = "place"
        /\ UNCHANGED <<value, stale, isAfterAtom, paren, pOpStk, pTkStk, cmpRegStk,
                       cmpLblStk, shortCircLblStk, labelCnt, run, odd>>
    BY DEF InfixOp, Keep, parsing, chains
  <1>3. lexemes' \in Seq(Lexemes) /\ paren <= Used({"("})'
    <2>1. x \in Lexemes
      BY DEF Lexemes
    <2>2. /\ lexemes' \in Seq(Lexemes) /\ Used({"("}) <= Used({"("})'
          /\ Used({"("}) \in Nat /\ Used({"("})' \in Nat
      BY <1>0, <1>1, <2>1, UsedGrows
    <2>3. paren \in Nat /\ paren <= Used({"("})
      BY <1>0 DEF Bounded
    <2>4. QED
      BY <2>2, <2>3
  <1>4. op' \in InfixOps /\ op'.lex # ")"
    BY <1>1, InputsAssumption DEF InfixOps
  <1>5. Control'
    BY <1>0, <1>2, <1>4 DEF Control
  <1>6. Typed'
    BY <1>0, <1>2, <1>3 DEF Typed, Valued
  <1>7. Bounded'
    BY <1>0, <1>2, <1>3 DEF Bounded
  <1>8. Counted'
    BY <1>0, <1>2 DEF Counted, Going, Atoms
  <1>9. Logical' /\ JumpHasLabel' /\ Finished'
    BY <1>0, <1>2 DEF Logical, JumpHasLabel, Finished
  <1>10. Structured'
    <2>1. FramesAt(pOpStk, cmpRegStk, Waiting) /\ Waiting = FALSE
      BY <1>0, <1>2 DEF Structured, Whole, Waiting
    <2>2. FramesAt(pOpStk, cmpRegStk, FALSE)
      BY <2>1
    <2>3. FramesAt(pOpStk, cmpRegStk, Waiting')
      BY <2>2, FramesWait
    <2>4. QED
      BY <1>2, <2>3 DEF Structured
  <1>11. Linked'
    BY <1>0, <1>2, <1>4 DEF Linked, Closing
  <1>12. QED
    BY <1>5, <1>6, <1>7, <1>8, <1>9, <1>10, <1>11 DEF IInv

LEMMA CloseParenInv ==
  IInv /\ CloseParen => IInv'
  <1> SUFFICES ASSUME IInv, CloseParen PROVE IInv'
    OBVIOUS
  <1>0. Control /\ Typed /\ Bounded /\ Counted /\ Logical /\ Structured /\ Linked
        /\ JumpHasLabel
    BY DEF IInv
  <1>1. /\ pc = "read" /\ isAfterAtom /\ paren > 0 /\ paren' = paren - 1
        /\ Read(")") /\ pc' = "place" /\ op' = Close
        /\ UNCHANGED <<value, stale, isAfterAtom, pOpStk, pTkStk, cmpRegStk,
                       cmpLblStk, shortCircLblStk, labelCnt, run, odd>>
    BY DEF CloseParen, Keep, chains, Close
  <1>2. /\ lexemes' \in Seq(Lexemes) /\ Used({"("}) <= Used({"("})'
        /\ Used({"("}) \in Nat /\ Used({"("})' \in Nat
    <2>1. ")" \in Lexemes
      BY DEF Lexemes
    <2>2. QED
      BY <1>0, <1>1, <2>1, UsedGrows
  <1>3. op' = Close /\ op'.lex = ")" /\ op'.lex \notin Compare
    BY <1>1 DEF Close, Compare
  <1>4. Control'
    BY <1>0, <1>1, <1>3 DEF Control
  <1>5. Typed'
    BY <1>0, <1>1, <1>2 DEF Typed, Valued
  <1>6. Bounded'
    BY <1>0, <1>1, <1>2, InputsAssumption DEF Bounded
  <1>7. Counted'
    BY <1>0, <1>1 DEF Counted, Going, Atoms
  <1>8. Logical' /\ JumpHasLabel' /\ Finished'
    BY <1>0, <1>1 DEF Logical, JumpHasLabel, Finished
  <1>9. Structured'
    <2>1. FramesAt(pOpStk, cmpRegStk, Waiting) /\ Waiting = FALSE /\ Waiting' = FALSE
      BY <1>0, <1>1, <1>3 DEF Structured, Whole, Waiting
    <2>2. QED
      BY <1>1, <2>1 DEF Structured
  <1>10. Linked'
    BY <1>0, <1>1, <1>3 DEF Linked, Closing, Bounded
  <1>11. QED
    BY <1>4, <1>5, <1>6, <1>7, <1>8, <1>9, <1>10 DEF IInv

LEMMA StopInv ==
  IInv /\ Stop => IInv'
  <1> SUFFICES ASSUME IInv, Stop PROVE IInv'
    OBVIOUS
  <1>0. Control /\ Typed /\ Bounded /\ Counted /\ Logical /\ Structured /\ Linked
        /\ JumpHasLabel
    BY DEF IInv
  <1>1. /\ pc = "read" /\ isAfterAtom /\ pc' = "end" /\ op' = NoOp
        /\ odd' = IF paren # 0 THEN odd \union {"unclosed"} ELSE odd
        /\ UNCHANGED <<lexemes, value, stale, isAfterAtom, paren, pOpStk, pTkStk,
                       cmpRegStk, cmpLblStk, shortCircLblStk, labelCnt, run>>
    BY DEF Stop, Fixed, parsing, chains
  <1>2. Control'
    BY <1>0, <1>1 DEF Control
  <1>3. Typed'
    BY <1>0, <1>1 DEF Typed, Valued
  <1>4. Bounded'
    BY <1>0, <1>1 DEF Bounded, Used
  <1>5. Counted'
    BY <1>0, <1>1 DEF Counted, Going, Atoms
  <1>6. Logical' /\ JumpHasLabel' /\ Finished'
    BY <1>0, <1>1 DEF Logical, JumpHasLabel, Finished
  <1>7. Structured'
    <2>1. FramesAt(pOpStk, cmpRegStk, Waiting) /\ Waiting = FALSE /\ Waiting' = FALSE
      BY <1>0, <1>1 DEF Structured, Whole, Waiting
    <2>2. QED
      BY <1>1, <2>1 DEF Structured
  <1>8. Linked'
    <2>1. Len(cmpRegStk) - 1 = paren /\ Len(cmpRegStk) \in Nat
      BY <1>0, <1>1, CmpRegNat DEF Linked, Closing
    <2>2. paren = 0 => Len(cmpRegStk) = 1
      BY <2>1
    <2>3. QED
      BY <1>1, <2>2 DEF Linked
  <1>9. QED
    BY <1>2, <1>3, <1>4, <1>5, <1>6, <1>7, <1>8 DEF IInv

-----------------------------------------------------------------------------
(* Handling. *)

LEMMA HandlingFacts ==
  ASSUME IInv, NEW S, Handling(S)
  PROVE  /\ pOpStk # <<>> /\ pOpStk \in Seq(Ops) /\ Front(pOpStk) \in Seq(Ops)
         /\ Last(pOpStk) \in Ops /\ Last(pOpStk).lex \in S
         /\ pc \in {"place", "end"} /\ isAfterAtom = TRUE
         /\ pTkStk \in Seq(Operands(Len(run.reg))) /\ Len(pTkStk) \in Nat
         /\ 1 <= Len(pTkStk) /\ Rhs \in Operands(Len(run.reg))
         /\ CountsAt(pOpStk, cmpRegStk, Len(cmpLblStk), Len(pTkStk) - 1)
  <1>1. Control /\ Typed /\ Counted
    BY DEF IInv
  <1>2. /\ pOpStk # <<>> /\ Last(pOpStk).lex \in S /\ pc \in {"place", "end"}
    BY DEF Handling
  <1>3. pOpStk \in Seq(Ops) /\ Front(pOpStk) \in Seq(Ops) /\ Last(pOpStk) \in Ops
    BY <1>1, <1>2, FrontFacts DEF Typed
  <1>4. isAfterAtom = TRUE
    BY <1>1, <1>2 DEF Control
  <1>5. pTkStk \in Seq(Operands(Len(run.reg))) /\ Len(pTkStk) \in Nat
    BY <1>1, LenProperties DEF Typed
  <1>6. CountsAt(pOpStk, cmpRegStk, Len(cmpLblStk), Len(pTkStk) - 1)
    BY <1>1, <1>2, <1>4 DEF Counted, Going, Atoms
  <1>7. Len(pTkStk) - 1 \in Nat
    BY <1>1, <1>3, <1>6, CmpRegNat, CountsNat
  <1>8. 1 <= Len(pTkStk) /\ pTkStk # <<>>
    BY <1>5, <1>7, EmptySeq
  <1>9. Rhs \in Operands(Len(run.reg))
    BY <1>5, <1>8, FrontFacts DEF Rhs
  <1>10. QED
    BY <1>2, <1>3, <1>4, <1>5, <1>6, <1>8, <1>9

(* An infix operator finds both its operands. *)
LEMMA InfixFacts ==
  ASSUME IInv, NEW S, Handling(S), Last(pOpStk).syntax = "infix"
  PROVE  /\ 2 <= Len(pTkStk) /\ Lhs \in Operands(Len(run.reg))
         /\ CountsAt(Front(pOpStk), cmpRegStk, Len(cmpLblStk), Len(pTkStk) - 2)
         /\ cmpRegStk \in Seq(Nat)
  <1>1. /\ pOpStk # <<>> /\ pOpStk \in Seq(Ops) /\ Front(pOpStk) \in Seq(Ops)
        /\ Last(pOpStk) \in Ops
        /\ pTkStk \in Seq(Operands(Len(run.reg))) /\ Len(pTkStk) \in Nat
        /\ CountsAt(pOpStk, cmpRegStk, Len(cmpLblStk), Len(pTkStk) - 1)
    BY HandlingFacts
  <1>2. cmpRegStk \in Seq(Nat)
    BY CmpRegNat DEF IInv
  <1>3. InfixWeight[Last(pOpStk)] = 1
    BY <1>1 DEF InfixWeight
  <1>4. (Len(pTkStk) - 1) - 1 = Len(pTkStk) - 2
    BY <1>1
  <1>5. CountsAt(Front(pOpStk), cmpRegStk, Len(cmpLblStk), Len(pTkStk) - 2)
    <2>1. CountsAt(Front(pOpStk), cmpRegStk, Len(cmpLblStk),
                   (Len(pTkStk) - 1) - InfixWeight[Last(pOpStk)])
      BY <1>1, <1>2, CountsPop
    <2>2. QED
      BY <1>3, <1>4, <2>1
  <1>6. Len(pTkStk) - 2 \in Nat
    BY <1>1, <1>2, <1>5, CountsNat
  <1>7. 2 <= Len(pTkStk) /\ Len(pTkStk) - 1 \in 1..Len(pTkStk)
    BY <1>1, <1>6
  <1>8. Lhs \in Operands(Len(run.reg))
    BY <1>1, <1>7, ElementOfSeq DEF Lhs
  <1>9. QED
    BY <1>2, <1>5, <1>7, <1>8

LEMMA LogicalKept ==
  ASSUME IInv, NEW S, Handling(S), Last(pOpStk).lex \notin Logic
  PROVE  Tally(Front(pOpStk), LogicWeight, Len(shortCircLblStk))
  <1>1. pOpStk # <<>> /\ pOpStk \in Seq(Ops) /\ Last(pOpStk) \in Ops
    BY HandlingFacts
  <1>2. Tally(pOpStk, LogicWeight, Len(shortCircLblStk)) /\ Len(shortCircLblStk) \in Nat
    BY LenProperties DEF IInv, Logical, Typed
  <1>3. LogicWeight[Last(pOpStk)] = 0
    BY <1>1 DEF LogicWeight
  <1>4. Tally(Front(pOpStk), LogicWeight, Len(shortCircLblStk) - LogicWeight[Last(pOpStk)])
    BY <1>1, <1>2, WeightTypes, TallyFront
  <1>5. QED
    BY <1>2, <1>3, <1>4

LEMMA LogicalPop ==
  ASSUME IInv, NEW S, Handling(S), Last(pOpStk).lex \in Logic
  PROVE  /\ shortCircLblStk # <<>> /\ shortCircLblStk \in Seq(Nat)
         /\ Tally(Front(pOpStk), LogicWeight, Len(Front(shortCircLblStk)))
  <1>1. pOpStk # <<>> /\ pOpStk \in Seq(Ops) /\ Last(pOpStk) \in Ops
    BY HandlingFacts
  <1>2. Tally(pOpStk, LogicWeight, Len(shortCircLblStk)) /\ shortCircLblStk \in Seq(Nat)
    BY DEF IInv, Logical, Typed
  <1>3. LogicWeight[Last(pOpStk)] = 1
    BY <1>1 DEF LogicWeight
  <1>4. /\ Tally(Front(pOpStk), LogicWeight, Len(shortCircLblStk) - 1)
        /\ Len(shortCircLblStk) - 1 \in Nat
    BY <1>1, <1>2, <1>3, WeightTypes, TallyFront
  <1>5. shortCircLblStk # <<>>
    BY <1>2, <1>4, EmptySeq
  <1>6. Len(Front(shortCircLblStk)) = Len(shortCircLblStk) - 1
    BY <1>2, <1>5, FrontFacts
  <1>7. QED
    BY <1>2, <1>4, <1>5, <1>6

(* What a handler has to leave behind. *)
LEMMA PopInv ==
  ASSUME IInv, NEW S, Handling(S), Last(pOpStk).lex # "(",
         pOpStk' = Front(pOpStk),
         UNCHANGED <<lexemes, value, stale, pc, isAfterAtom, paren, op>>,
         run' \in Machine, pTkStk' \in Seq(Operands(Len(run'.reg))),
         cmpRegStk' \in Seq(0..Len(run'.reg)), Len(cmpRegStk') = Len(cmpRegStk),
         \A k \in 1..Len(cmpRegStk) - 1 : cmpRegStk'[k] = cmpRegStk[k],
         \/ Waiting
         \/ cmpRegStk'[Len(cmpRegStk)] = 0
         \/ /\ cmpRegStk'[Len(cmpRegStk)] = cmpRegStk[Len(cmpRegStk)]
            /\ Last(pOpStk).lex \notin Compare,
         cmpLblStk' \in Seq(Nat), shortCircLblStk' \in Seq(Nat), labelCnt' \in Nat,
         odd' \subseteq {"unclosed", "bits", "stolen"},
         CountsAt(Front(pOpStk), cmpRegStk', Len(cmpLblStk'), Len(pTkStk') - 1),
         Tally(Front(pOpStk), LogicWeight, Len(shortCircLblStk')),
         JumpHasLabel'
  PROVE  IInv'
  <1>1. Control /\ Typed /\ Bounded /\ Structured /\ Linked
    BY DEF IInv
  <1>2. /\ pOpStk # <<>> /\ pOpStk \in Seq(Ops) /\ Front(pOpStk) \in Seq(Ops)
        /\ pc \in {"place", "end"} /\ isAfterAtom = TRUE
    BY HandlingFacts
  <1>3. /\ cmpRegStk \in Seq(Nat) /\ Len(cmpRegStk) \in Nat /\ cmpRegStk # <<>>
    BY <1>1, CmpRegNat DEF Typed
  <1>4. cmpRegStk' \in Seq(Nat)
    <2>1. 0..Len(run'.reg) \subseteq Nat
      OBVIOUS
    <2>2. QED
      BY <2>1, SeqGrow
  <1>5. cmpRegStk' # <<>>
    <2>1. Len(cmpRegStk') # 0
      BY <1>3, EmptySeq
    <2>2. QED
      BY <1>4, <2>1, EmptySeq
  <1>6. Control'
    BY <1>1 DEF Control
  <1>7. Typed'
    BY <1>1, <1>2, <1>5 DEF Typed, Valued
  <1>8. Bounded'
    BY <1>1 DEF Bounded, Used
  <1>9. Counted'
    <2>1. Atoms' = 1
      BY <1>2 DEF Atoms
    <2>2. QED
      BY <2>1 DEF Counted
  <1>10. Logical'
    BY DEF Logical
  <1>11. Structured'
    <2>1. Whole' = Whole /\ Waiting' = Waiting
      BY DEF Whole, Waiting
    <2>2. ASSUME Whole PROVE FramesAt(Front(pOpStk), cmpRegStk', Waiting)
      <3>1. FramesAt(pOpStk, cmpRegStk, Waiting)
        BY <1>1, <2>2 DEF Structured
      <3>2. QED
        BY <1>2, <1>3, <1>4, <3>1, FramesPop
    <2>3. QED
      BY <2>1, <2>2 DEF Structured
  <1>12. Linked'
    BY <1>1 DEF Linked, Closing
  <1>13. Finished'
    BY <1>2 DEF Finished
  <1>14. QED
    BY <1>6, <1>7, <1>8, <1>9, <1>10, <1>11, <1>12, <1>13 DEF IInv

(* What was good for fewer registers is good for more. *)
LEMMA Widened ==
  ASSUME Typed, NEW m \in Machine, Len(run.reg) <= Len(m.reg)
  PROVE  /\ Operands(Len(run.reg)) \subseteq Operands(Len(m.reg))
         /\ cmpRegStk \in Seq(0..Len(m.reg))
  <1>1. Len(run.reg) \in Nat /\ Len(m.reg) \in Nat
    BY RegLen DEF Typed
  <1>2. 0..Len(run.reg) \subseteq 0..Len(m.reg)
    BY <1>1
  <1>3. cmpRegStk \in Seq(0..Len(run.reg))
    BY DEF Typed
  <1>4. cmpRegStk \in Seq(0..Len(m.reg))
    BY <1>2, <1>3, SeqGrow
  <1>5. QED
    BY <1>1, <1>4, OperandsGrow

LEMMA PushedOperand ==
  ASSUME NEW S, pTkStk \in Seq(S), NEW T, S \subseteq T, NEW x \in T,
         NEW k \in {1, 2}, k <= Len(pTkStk), Push(k, x)
  PROVE  pTkStk' \in Seq(T) /\ Len(pTkStk') = Len(pTkStk) - k + 1
  <1> DEFINE n == Len(pTkStk) - k
  <1>1. Len(pTkStk) \in Nat
    BY LenProperties
  <1>2. n \in Nat /\ n <= Len(pTkStk)
    BY <1>1
  <1>3. pTkStk' = Append(SubSeq(pTkStk, 1, n), x)
    BY DEF Push
  <1> HIDE DEF n
  <1>4. /\ Append(SubSeq(pTkStk, 1, n), x) \in Seq(T)
        /\ Len(Append(SubSeq(pTkStk, 1, n), x)) = n + 1
    BY <1>2, Pushed
  <1>5. QED
    BY <1>3, <1>4 DEF n

LEMMA HandlePrefixInv ==
  IInv /\ HandlePrefix => IInv'
  <1> SUFFICES ASSUME IInv, HandlePrefix PROVE IInv'
    OBVIOUS
  <1> DEFINE o == Last(pOpStk)
             m == Fetch(run, Rhs)
             i == RegOf(run, Rhs)
  <1>1. /\ Handling(Prefix) /\ o.syntax = "prefix"
        /\ run' = PrefixDone(m, i, o.lex)
        /\ Push(1, Reg(i))
        /\ pOpStk' = Front(pOpStk)
        /\ UNCHANGED <<lexemes, value, stale, pc, isAfterAtom, paren, cmpRegStk,
                       cmpLblStk, shortCircLblStk, labelCnt, op, odd>>
    BY DEF HandlePrefix, Fixed, chains
  <1>2. /\ Typed /\ Valued /\ run \in Machine /\ Control /\ JumpHasLabel
    BY DEF IInv, Typed
  <1>3. /\ pOpStk # <<>> /\ pOpStk \in Seq(Ops) /\ o \in Ops /\ o.lex \in Prefix
        /\ pTkStk \in Seq(Operands(Len(run.reg))) /\ Len(pTkStk) \in Nat
        /\ 1 <= Len(pTkStk) /\ Rhs \in Operands(Len(run.reg))
        /\ CountsAt(pOpStk, cmpRegStk, Len(cmpLblStk), Len(pTkStk) - 1)
    BY <1>1, HandlingFacts
  <1>4. /\ m \in Machine /\ m.skip = run.skip /\ Len(run.reg) <= Len(m.reg)
        /\ i \in 1..Len(m.reg)
    BY <1>2, <1>3, FetchFacts
  <1> HIDE DEF m, i, o
  <1>5. run' \in Machine /\ Len(run'.reg) = Len(m.reg) /\ run'.skip = m.skip
    BY <1>1, <1>4, PrefixDoneFacts DEF Plain
  <1>6. /\ Operands(Len(run.reg)) \subseteq Operands(Len(run'.reg))
        /\ cmpRegStk' \in Seq(0..Len(run'.reg))
    BY <1>1, <1>2, <1>4, <1>5, Widened
  <1>7. /\ pTkStk' \in Seq(Operands(Len(run'.reg)))
        /\ Len(pTkStk') = Len(pTkStk) - 1 + 1
    <2>1. Len(run'.reg) \in Nat
      BY <1>5, RegLen
    <2>2. Reg(i) \in Operands(Len(run'.reg))
      BY <1>4, <1>5, <2>1, RegFacts
    <2>3. QED
      BY <1>1, <1>3, <1>6, <2>2, PushedOperand
  <1>8. CountsAt(Front(pOpStk), cmpRegStk', Len(cmpLblStk'), Len(pTkStk') - 1)
    <2>1. InfixWeight[o] = 0
      BY <1>1, <1>3 DEF InfixWeight
    <2>2. cmpRegStk \in Seq(Nat)
      BY <1>2, CmpRegNat
    <2>3. CountsAt(Front(pOpStk), cmpRegStk, Len(cmpLblStk),
                   (Len(pTkStk) - 1) - InfixWeight[o])
      BY <1>3, <2>2, CountsPop DEF o
    <2>4. (Len(pTkStk) - 1) - InfixWeight[o] = Len(pTkStk') - 1
      BY <1>3, <1>7, <2>1
    <2>5. QED
      BY <1>1, <2>3, <2>4
  <1>9. o.lex # "(" /\ o.lex \notin Logic /\ o.lex \notin Compare
    BY <1>3 DEF Prefix, Logic, Compare
  <1>10. Tally(Front(pOpStk), LogicWeight, Len(shortCircLblStk'))
    BY <1>1, <1>9, LogicalKept DEF o
  <1>11. JumpHasLabel'
    BY <1>1, <1>2, <1>4, <1>5 DEF JumpHasLabel
  <1>12. /\ cmpLblStk' \in Seq(Nat) /\ shortCircLblStk' \in Seq(Nat) /\ labelCnt' \in Nat
         /\ odd' \subseteq {"unclosed", "bits", "stolen"}
    BY <1>1, <1>2 DEF Typed, Control
  <1>13. QED
    BY <1>1, <1>5, <1>6, <1>7, <1>8, <1>9, <1>10, <1>11, <1>12, PopInv DEF o

LEMMA HandleArithInv ==
  IInv /\ HandleArith => IInv'
  <1> SUFFICES ASSUME IInv, HandleArith PROVE IInv'
    OBVIOUS
  <1> DEFINE o == Last(pOpStk)
  <1>1. /\ Handling({"*", "-"}) /\ o.syntax = "infix"
        /\ run' = ArithDone(Both, RegL, RegR, o.lex)
        /\ Push(2, Reg(RegL))
        /\ pOpStk' = Front(pOpStk)
        /\ UNCHANGED <<lexemes, value, stale, pc, isAfterAtom, paren, cmpRegStk,
                       cmpLblStk, shortCircLblStk, labelCnt, op, odd>>
    BY DEF HandleArith, Fixed, chains
  <1>2. /\ Typed /\ Valued /\ run \in Machine /\ Control /\ JumpHasLabel
    BY DEF IInv, Typed
  <1>3. /\ o.lex \in {"*", "-"} /\ pTkStk \in Seq(Operands(Len(run.reg)))
        /\ Len(pTkStk) \in Nat /\ Rhs \in Operands(Len(run.reg))
    BY <1>1, HandlingFacts
  <1>4. /\ 2 <= Len(pTkStk) /\ Lhs \in Operands(Len(run.reg))
        /\ CountsAt(Front(pOpStk), cmpRegStk, Len(cmpLblStk), Len(pTkStk) - 2)
    BY <1>1, InfixFacts
  <1>5. /\ Both \in Machine /\ Both.skip = run.skip /\ Len(run.reg) <= Len(Both.reg)
        /\ RegL \in 1..Len(Both.reg) /\ RegR \in 1..Len(Both.reg)
    BY <1>2, <1>3, <1>4, BothFacts DEF Both, RegL, RegR
  <1> HIDE DEF o
  <1>6. run' \in Machine /\ Len(run'.reg) = Len(Both.reg) /\ run'.skip = Both.skip
    BY <1>1, <1>5, ArithDoneFacts DEF Plain
  <1>7. /\ Operands(Len(run.reg)) \subseteq Operands(Len(run'.reg))
        /\ cmpRegStk' \in Seq(0..Len(run'.reg))
    BY <1>1, <1>2, <1>5, <1>6, Widened
  <1>8. /\ pTkStk' \in Seq(Operands(Len(run'.reg)))
        /\ Len(pTkStk') = Len(pTkStk) - 2 + 1
    <2>1. Len(run'.reg) \in Nat
      BY <1>6, RegLen
    <2>2. Reg(RegL) \in Operands(Len(run'.reg))
      BY <1>5, <1>6, <2>1, RegFacts
    <2>3. QED
      BY <1>1, <1>3, <1>4, <1>7, <2>2, PushedOperand
  <1>9. CountsAt(Front(pOpStk), cmpRegStk', Len(cmpLblStk'), Len(pTkStk') - 1)
    <2>1. Len(pTkStk') - 1 = Len(pTkStk) - 2
      BY <1>3, <1>8
    <2>2. QED
      BY <1>1, <1>4, <2>1
  <1>10. o.lex # "(" /\ o.lex \notin Logic /\ o.lex \notin Compare
    BY <1>3 DEF Logic, Compare
  <1>11. Tally(Front(pOpStk), LogicWeight, Len(shortCircLblStk'))
    BY <1>1, <1>10, LogicalKept DEF o
  <1>12. JumpHasLabel'
    BY <1>1, <1>2, <1>5, <1>6 DEF JumpHasLabel
  <1>13. /\ cmpLblStk' \in Seq(Nat) /\ shortCircLblStk' \in Seq(Nat) /\ labelCnt' \in Nat
         /\ odd' \subseteq {"unclosed", "bits", "stolen"}
    BY <1>1, <1>2 DEF Typed, Control
  <1>14. QED
    BY <1>1, <1>6, <1>7, <1>8, <1>9, <1>10, <1>11, <1>12, <1>13, PopInv DEF o

LEMMA InfixSyntax ==
  ASSUME NEW o \in Ops, o.lex \in Logic \cup Compare \cup {"="}
  PROVE  o.syntax = "infix"
  BY DEF Ops, InfixOps, PrefixOps, Prefix, Logic, Compare

LEMMA HandleLogicInv ==
  IInv /\ HandleLogic => IInv'
  <1> SUFFICES ASSUME IInv, HandleLogic PROVE IInv'
    OBVIOUS
  <1> DEFINE o == Last(pOpStk)
             lbl == Top(shortCircLblStk)
  <1>1. /\ Handling(Logic)
        /\ run' = LogicDone(Both, RegL, RegR, o.lex, lbl)
        /\ shortCircLblStk' = Front(shortCircLblStk)
        /\ Push(2, Reg(RegL))
        /\ pOpStk' = Front(pOpStk)
        /\ UNCHANGED <<lexemes, value, stale, pc, isAfterAtom, paren, cmpRegStk,
                       cmpLblStk, labelCnt, op>>
    BY DEF HandleLogic, Fixed, chains
  <1>2. /\ Typed /\ Valued /\ run \in Machine /\ Control /\ JumpHasLabel
    BY DEF IInv, Typed
  <1>3. /\ o.lex \in Logic /\ o \in Ops /\ pTkStk \in Seq(Operands(Len(run.reg)))
        /\ Len(pTkStk) \in Nat /\ Rhs \in Operands(Len(run.reg))
    BY <1>1, HandlingFacts
  <1>4. /\ 2 <= Len(pTkStk) /\ Lhs \in Operands(Len(run.reg))
        /\ CountsAt(Front(pOpStk), cmpRegStk, Len(cmpLblStk), Len(pTkStk) - 2)
    <2>1. o.syntax = "infix"
      BY <1>3, InfixSyntax
    <2>2. QED
      BY <1>1, <2>1, InfixFacts
  <1>5. /\ Both \in Machine /\ Both.skip = run.skip /\ Len(run.reg) <= Len(Both.reg)
        /\ RegL \in 1..Len(Both.reg) /\ RegR \in 1..Len(Both.reg)
    BY <1>2, <1>3, <1>4, BothFacts DEF Both, RegL, RegR
  <1>6. /\ shortCircLblStk # <<>> /\ shortCircLblStk \in Seq(Nat)
        /\ Tally(Front(pOpStk), LogicWeight, Len(shortCircLblStk'))
    BY <1>1, <1>3, LogicalPop
  <1>7. shortCircLblStk' \in Seq(Nat) /\ lbl = Last(shortCircLblStk)
    BY <1>1, <1>6, FrontFacts, TopFacts
  <1>8. odd' \subseteq {"unclosed", "bits", "stolen"}
    <2>1. odd' \subseteq odd \cup {"bits"}
      BY DEF HandleLogic
    <2>2. QED
      BY <1>2, <2>1 DEF Control
  <1> HIDE DEF o, lbl
  <1>9. /\ run' \in Machine /\ Len(run'.reg) = Len(Both.reg)
        /\ run'.skip = 0 \/ (run'.skip = Both.skip /\ Both.skip # lbl)
    BY <1>1, <1>5, LogicDoneFacts
  <1>10. /\ Operands(Len(run.reg)) \subseteq Operands(Len(run'.reg))
         /\ cmpRegStk' \in Seq(0..Len(run'.reg))
    BY <1>1, <1>2, <1>5, <1>9, Widened
  <1>11. /\ pTkStk' \in Seq(Operands(Len(run'.reg)))
         /\ Len(pTkStk') = Len(pTkStk) - 2 + 1
    <2>1. Len(run'.reg) \in Nat
      BY <1>9, RegLen
    <2>2. Reg(RegL) \in Operands(Len(run'.reg))
      BY <1>5, <1>9, <2>1, RegFacts
    <2>3. QED
      BY <1>1, <1>3, <1>4, <1>10, <2>2, PushedOperand
  <1>12. CountsAt(Front(pOpStk), cmpRegStk', Len(cmpLblStk'), Len(pTkStk') - 1)
    <2>1. Len(pTkStk') - 1 = Len(pTkStk) - 2
      BY <1>3, <1>11
    <2>2. QED
      BY <1>1, <1>4, <2>1
  <1>13. o.lex # "(" /\ o.lex \notin Compare
    BY <1>3 DEF Logic, Compare
  <1>14. JumpHasLabel'
    <2>1. Range(shortCircLblStk) \subseteq Range(shortCircLblStk') \cup {lbl}
      BY <1>1, <1>6, <1>7, FrontRange
    <2>2. QED
      BY <1>1, <1>2, <1>5, <1>9, <2>1 DEF JumpHasLabel
  <1>15. cmpLblStk' \in Seq(Nat) /\ labelCnt' \in Nat
    BY <1>1, <1>2 DEF Typed
  <1>16. QED
    BY <1>1, <1>6, <1>7, <1>8, <1>9, <1>10, <1>11, <1>12, <1>13, <1>14, <1>15, PopInv
       DEF o

LEMMA ErrorInv ==
  ASSUME IInv, pc' = "error",
         UNCHANGED <<lexemes, value, stale, isAfterAtom, paren, pOpStk, pTkStk,
                     cmpRegStk, cmpLblStk, shortCircLblStk, labelCnt, op, run, odd>>
  PROVE  IInv'
  <1>1. Control /\ Typed /\ Bounded /\ Logical /\ JumpHasLabel
    BY DEF IInv
  <1>2. Control'
    BY <1>1 DEF Control
  <1>3. Typed'
    BY <1>1 DEF Typed, Valued
  <1>4. Bounded'
    BY <1>1 DEF Bounded, Used
  <1>5. Counted' /\ Structured' /\ Linked' /\ Finished'
    BY DEF Counted, Going, Structured, Whole, Linked, Finished
  <1>6. Logical' /\ JumpHasLabel'
    BY <1>1 DEF Logical, JumpHasLabel
  <1>7. QED
    BY <1>2, <1>3, <1>4, <1>5, <1>6 DEF IInv

LEMMA HandleAssignInv ==
  IInv /\ HandleAssign => IInv'
  <1> SUFFICES ASSUME IInv, HandleAssign PROVE IInv'
    OBVIOUS
  <1>1. CASE ~Lhs.isLValue
    <2>1. /\ pc' = "error"
          /\ UNCHANGED <<lexemes, value, stale, isAfterAtom, paren, pOpStk, pTkStk,
                         cmpRegStk, cmpLblStk, shortCircLblStk, labelCnt, op, run, odd>>
      BY <1>1 DEF HandleAssign, Fixed, chains
    <2>2. QED
      BY <2>1, ErrorInv
  <1>2. CASE Lhs.isLValue
    <2> DEFINE o == Last(pOpStk)
               m == Fetch(run, Rhs)
               i == RegOf(run, Rhs)
    <2>1. /\ Handling({"="})
          /\ run' = AssignDone(m, Lhs.at, i)
          /\ Push(2, Reg(i))
          /\ pOpStk' = Front(pOpStk)
          /\ UNCHANGED <<lexemes, value, stale, pc, isAfterAtom, paren, cmpRegStk,
                         cmpLblStk, shortCircLblStk, labelCnt, op, odd>>
      BY <1>2 DEF HandleAssign, Fixed, chains
    <2>2. /\ Typed /\ Valued /\ run \in Machine /\ Control /\ JumpHasLabel
      BY DEF IInv, Typed
    <2>3. /\ o.lex \in {"="} /\ o \in Ops /\ pTkStk \in Seq(Operands(Len(run.reg)))
          /\ Len(pTkStk) \in Nat /\ Rhs \in Operands(Len(run.reg))
      BY <2>1, HandlingFacts
    <2>4. /\ 2 <= Len(pTkStk) /\ Lhs \in Operands(Len(run.reg))
          /\ CountsAt(Front(pOpStk), cmpRegStk, Len(cmpLblStk), Len(pTkStk) - 2)
      <3>1. o.syntax = "infix"
        BY <2>3, InfixSyntax
      <3>2. QED
        BY <2>1, <3>1, InfixFacts
    <2>5. Lhs.at \in Nat
      <3>1. Lhs.at \in DOMAIN Names \/ Lhs.at \in 1..Len(run.reg)
        BY <2>4 DEF Operands, NameOps, RegOps
      <3>2. QED
        BY <3>1, InputsAssumption
    <2>6. /\ m \in Machine /\ m.skip = run.skip /\ Len(run.reg) <= Len(m.reg)
          /\ i \in 1..Len(m.reg)
      BY <2>2, <2>3, FetchFacts
    <2> HIDE DEF m, i, o
    <2>7. run' \in Machine /\ Len(run'.reg) = Len(m.reg) /\ run'.skip = m.skip
      BY <2>1, <2>5, <2>6, AssignDoneFacts DEF Plain
    <2>8. /\ Operands(Len(run.reg)) \subseteq Operands(Len(run'.reg))
          /\ cmpRegStk' \in Seq(0..Len(run'.reg))
      BY <2>1, <2>2, <2>6, <2>7, Widened
    <2>9. /\ pTkStk' \in Seq(Operands(Len(run'.reg)))
          /\ Len(pTkStk') = Len(pTkStk) - 2 + 1
      <3>1. Len(run'.reg) \in Nat
        BY <2>7, RegLen
      <3>2. Reg(i) \in Operands(Len(run'.reg))
        BY <2>6, <2>7, <3>1, RegFacts
      <3>3. QED
        BY <2>1, <2>3, <2>4, <2>8, <3>2, PushedOperand
    <2>10. CountsAt(Front(pOpStk), cmpRegStk', Len(cmpLblStk'), Len(pTkStk') - 1)
      <3>1. Len(pTkStk') - 1 = Len(pTkStk) - 2
        BY <2>3, <2>9
      <3>2. QED
        BY <2>1, <2>4, <3>1
    <2>11. o.lex # "(" /\ o.lex \notin Logic /\ o.lex \notin Compare
      BY <2>3 DEF Logic, Compare
    <2>12. Tally(Front(pOpStk), LogicWeight, Len(shortCircLblStk'))
      BY <2>1, <2>11, LogicalKept DEF o
    <2>13. JumpHasLabel'
      BY <2>1, <2>2, <2>6, <2>7 DEF JumpHasLabel
    <2>14. /\ cmpLblStk' \in Seq(Nat) /\ shortCircLblStk' \in Seq(Nat)
           /\ labelCnt' \in Nat /\ odd' \subseteq {"unclosed", "bits", "stolen"}
      BY <2>1, <2>2 DEF Typed, Control
    <2>15. QED
      BY <2>1, <2>7, <2>8, <2>9, <2>10, <2>11, <2>12, <2>13, <2>14, PopInv DEF o
  <1>3. QED
    BY <1>1, <1>2

LEMMA EndInv ==
  IInv /\ End => IInv'
  <1> SUFFICES ASSUME IInv, End PROVE IInv'
    OBVIOUS
  <1>1. /\ pc = "end" /\ pOpStk = <<>> /\ pc' = "done"
        /\ UNCHANGED <<lexemes, value, stale, isAfterAtom, paren, pOpStk, pTkStk,
                       shortCircLblStk, labelCnt, op, run, odd>>
        /\ IF paren # 0 THEN UNCHANGED <<cmpRegStk, cmpLblStk>>
                        ELSE cmpLblStk' = <<>> /\ cmpRegStk' = <<0>>
    BY DEF End, Fixed, parsing, chains
  <1>2. Control /\ Typed /\ Bounded /\ Counted /\ Logical /\ Structured /\ JumpHasLabel
    BY DEF IInv
  <1>3. cmpRegStk \in Seq(Nat) /\ Len(run.reg) \in Nat
    BY <1>2, CmpRegNat
  <1>4. shortCircLblStk = <<>>
    <2>1. Len(shortCircLblStk) = 0
      BY <1>1, <1>2, TallyNone DEF Logical
    <2>2. QED
      BY <1>2, <2>1, EmptySeq DEF Typed
  <1>5. ASSUME paren = 0 PROVE Len(pTkStk) = 1 /\ cmpLblStk = <<>>
    <2>1. FramesAt(<<>>, cmpRegStk, FALSE)
      <3>1. Waiting = FALSE
        BY <1>1 DEF Waiting
      <3>2. QED
        BY <1>1, <1>2, <1>5, <3>1 DEF Structured, Whole
    <2>2. Len(cmpRegStk) = 1 /\ cmpRegStk[1] = 0
      BY <1>3, <2>1, FramesShallow
    <2>3. CountsAt(<<>>, cmpRegStk, Len(cmpLblStk), Len(pTkStk) - 1)
      <3>1. Atoms = 1
        BY <1>1, <1>2 DEF Control, Atoms
      <3>2. QED
        BY <1>1, <1>2, <3>1 DEF Counted, Going
    <2>4. PICK a, b : /\ Tally(<<>>, InfixWeight, a) /\ Tally(cmpRegStk, OpenWeight, b)
                      /\ Len(pTkStk) - 1 = a + b /\ Len(cmpLblStk) \in 0..b
      BY <2>3 DEF CountsAt
    <2>5. a = 0 /\ b = 0
      BY <1>3, <2>2, <2>4, TallyNone, TallyZero
    <2>6. Len(pTkStk) \in Nat /\ cmpLblStk \in Seq(Nat)
      BY <1>2, LenProperties DEF Typed
    <2>7. Len(pTkStk) = 1 /\ Len(cmpLblStk) = 0
      BY <2>4, <2>5, <2>6
    <2>8. QED
      BY <2>6, <2>7, EmptySeq
  <1>6. Control'
    BY <1>1, <1>2 DEF Control
  <1>7. Typed'
    <2>1. <<0>> \in Seq(0..Len(run.reg)) /\ <<0>> # <<>> /\ <<>> \in Seq(Nat)
      BY <1>3
    <2>2. /\ cmpRegStk' \in Seq(0..Len(run.reg)) /\ cmpRegStk' # <<>>
          /\ cmpLblStk' \in Seq(Nat)
      BY <1>1, <1>2, <2>1 DEF Typed
    <2>3. QED
      BY <1>1, <1>2, <2>2 DEF Typed, Valued
  <1>8. Bounded'
    BY <1>1, <1>2 DEF Bounded, Used
  <1>9. Counted' /\ Structured' /\ Linked'
    BY <1>1 DEF Counted, Going, Structured, Whole, Linked
  <1>10. cmpLblStk' = cmpLblStk
    BY <1>1, <1>5
  <1>11. Logical' /\ JumpHasLabel'
    BY <1>1, <1>2, <1>10 DEF Logical, JumpHasLabel
  <1>12. Finished'
    BY <1>1, <1>4, <1>5, <1>10 DEF Finished
  <1>13. QED
    BY <1>6, <1>7, <1>8, <1>9, <1>11, <1>12 DEF IInv

-----------------------------------------------------------------------------
(* A parenthesis: only a right one makes a left one emit its code. *)

LEMMA Precedences ==
  /\ \A o \in Ops : Precedence(o) \in 1..99 /\ (o.lex = "(" => Precedence(o) = 99)
  /\ \A o \in InfixOps : Precedence(o) \in 1..11
  /\ Precedence(Close) = 100 /\ ~IsRightAssoc(Close) /\ Close.lex = ")"
  <1>1. \A o \in InfixOps : Precedence(o) \in 1..11 /\ o.lex # "("
    <2> TAKE o \in InfixOps
    <2>1. /\ o.syntax = "infix"
          /\ o.lex \in {"*", "-", "<", "==", "&&", "||", "="}
      BY InputsAssumption DEF InfixOps
    <2>2. o.lex # "("
      BY <2>1
    <2>3. Precedence(o) \in 1..11
      BY <2>1 DEF Precedence, Compare
    <2>4. QED
      BY <2>2, <2>3
  <1>2. \A o \in PrefixOps : Precedence(o) = IF o.lex = "(" THEN 99 ELSE 1
    BY DEF PrefixOps, Precedence, Prefix, Compare
  <1>3. Precedence(Close) = 100 /\ ~IsRightAssoc(Close) /\ Close.lex = ")"
    BY DEF Close, Precedence, IsRightAssoc, Compare
  <1>4. ASSUME NEW o \in Ops
        PROVE  Precedence(o) \in 1..99 /\ (o.lex = "(" => Precedence(o) = 99)
    <2>1. CASE o \in InfixOps
      BY <1>1, <2>1
    <2>2. CASE o \in PrefixOps
      BY <1>2, <2>2
    <2>3. QED
      BY <2>1, <2>2 DEF Ops
  <1>5. QED
    BY <1>1, <1>3, <1>4

LEMMA HandleParenInv ==
  IInv /\ HandleParen => IInv'
  <1> SUFFICES ASSUME IInv, HandleParen PROVE IInv'
    OBVIOUS
  <1> DEFINE o == Last(pOpStk)
  <1>1. /\ Handling({"("}) /\ pOpStk' = Front(pOpStk)
        /\ IF pc = "place" THEN pc' = "read" /\ cmpRegStk' = Front(cmpRegStk)
                           ELSE UNCHANGED <<pc, cmpRegStk>>
        /\ UNCHANGED <<lexemes, value, stale, isAfterAtom, paren, pTkStk, cmpLblStk,
                       shortCircLblStk, labelCnt, op, run, odd>>
    BY DEF HandleParen, FrameClosed, Fixed
  <1>2. /\ Control /\ Typed /\ Bounded /\ Counted /\ Logical /\ Structured /\ Linked
        /\ JumpHasLabel
    BY DEF IInv
  <1>3. /\ pOpStk # <<>> /\ pOpStk \in Seq(Ops) /\ Front(pOpStk) \in Seq(Ops)
        /\ o \in Ops /\ o.lex \in {"("} /\ pc \in {"place", "end"}
        /\ isAfterAtom = TRUE /\ Len(pTkStk) \in Nat
        /\ CountsAt(pOpStk, cmpRegStk, Len(cmpLblStk), Len(pTkStk) - 1)
    BY <1>1, HandlingFacts
  <1>4. /\ o.lex = "(" /\ o.syntax = "prefix" /\ InfixWeight[o] = 0
        /\ o.lex \notin Logic
    BY <1>3, InputsAssumption DEF Ops, InfixOps, PrefixOps, InfixWeight, Logic
  <1>5. /\ cmpRegStk \in Seq(Nat) /\ Len(cmpRegStk) \in Nat
        /\ cmpRegStk \in Seq(0..Len(run.reg)) /\ cmpRegStk # <<>>
    BY <1>2, CmpRegNat DEF Typed
  <1>6. CountsAt(Front(pOpStk), cmpRegStk, Len(cmpLblStk), Len(pTkStk) - 1)
    <2>1. CountsAt(Front(pOpStk), cmpRegStk, Len(cmpLblStk),
                   (Len(pTkStk) - 1) - InfixWeight[o])
      BY <1>3, <1>5, CountsPop
    <2>2. (Len(pTkStk) - 1) - InfixWeight[o] = Len(pTkStk) - 1
      BY <1>3, <1>4
    <2>3. QED
      BY <2>1, <2>2
  <1>7. Tally(Front(pOpStk), LogicWeight, Len(shortCircLblStk))
    BY <1>1, <1>4, LogicalKept
  <1>8. FramesAt(pOpStk, cmpRegStk, FALSE) =>
          /\ Last(cmpRegStk) = 0 /\ Len(cmpRegStk) > 1
          /\ FramesAt(Front(pOpStk), Front(cmpRegStk), FALSE)
    BY <1>3, <1>4, <1>5, FramesClose
  <1>9. Logical' /\ JumpHasLabel' /\ Bounded'
    BY <1>1, <1>2, <1>7 DEF Logical, JumpHasLabel, Bounded, Used
  <1>10. CASE pc = "place"
    <2>1. op = Close
      <3>1. op \in InfixOps \cup {Close}
        BY <1>2, <1>10 DEF Control
      <3>2. WillHandle(op, o)
        BY <1>1, <1>10 DEF Handling
      <3>3. Precedence(o) = 99
        BY <1>3, <1>4, Precedences
      <3>4. Precedence(op) >= 99
        <4>1. Precedence(op) \in Nat
          BY <3>1, Precedences
        <4>2. QED
          BY <3>2, <3>3, <4>1 DEF WillHandle
      <3>5. op \notin InfixOps
        BY <3>4, Precedences
      <3>6. QED
        BY <3>1, <3>5
    <2>2. Closing /\ Waiting = FALSE
      BY <1>10, <2>1 DEF Closing, Waiting, Close, Compare
    <2>3. FramesAt(pOpStk, cmpRegStk, FALSE)
      BY <1>2, <1>10, <2>2 DEF Structured, Whole
    <2>4. /\ Last(cmpRegStk) = 0 /\ Len(cmpRegStk) > 1
          /\ FramesAt(Front(pOpStk), Front(cmpRegStk), FALSE)
      BY <1>8, <2>3
    <2>5. /\ Front(cmpRegStk) \in Seq(0..Len(run.reg))
          /\ Len(Front(cmpRegStk)) = Len(cmpRegStk) - 1
      BY <1>5, FrontFacts
    <2>6. Front(cmpRegStk) # <<>>
      <3>1. 1 <= Len(cmpRegStk) - 1
        BY <1>5, <2>4
      <3>2. Len(Front(cmpRegStk)) # 0
        BY <2>5, <3>1
      <3>3. QED
        BY <2>5, <3>2, EmptySeq
    <2>7. pc' = "read" /\ cmpRegStk' = Front(cmpRegStk)
      BY <1>1, <1>10
    <2>8. Control'
      BY <1>1, <1>2, <2>7 DEF Control
    <2>9. Typed'
      BY <1>1, <1>2, <1>3, <2>5, <2>6, <2>7 DEF Typed, Valued
    <2>10. Counted'
      <3>1. CountsAt(Front(pOpStk), Front(cmpRegStk), Len(cmpLblStk), Len(pTkStk) - 1)
        BY <1>3, <1>5, <1>6, <2>4, CountsClose
      <3>2. Atoms' = 1
        BY <1>1, <1>3 DEF Atoms
      <3>3. QED
        BY <1>1, <2>7, <3>1, <3>2 DEF Counted
    <2>11. Structured'
      <3>1. Waiting' = FALSE
        BY <2>7 DEF Waiting
      <3>2. QED
        BY <1>1, <2>4, <2>7, <3>1 DEF Structured
    <2>12. Linked'
      <3>1. Len(cmpRegStk) - 1 = paren + 1 /\ paren \in Nat
        BY <1>2, <1>10, <2>2 DEF Linked, Bounded
      <3>2. Len(cmpRegStk') - 1 = paren'
        BY <1>1, <1>5, <2>5, <2>7, <3>1
      <3>3. QED
        BY <2>7, <3>2 DEF Linked, Closing
    <2>13. Finished'
      BY <2>7 DEF Finished
    <2>14. QED
      BY <1>9, <2>8, <2>9, <2>10, <2>11, <2>12, <2>13 DEF IInv
  <1>11. CASE pc = "end"
    <2>1. pc' = "end" /\ cmpRegStk' = cmpRegStk
      BY <1>1, <1>11
    <2>2. paren # 0
      <3> SUFFICES ASSUME paren = 0 PROVE FALSE
        OBVIOUS
      <3>1. Waiting = FALSE
        BY <1>11 DEF Waiting
      <3>2. FramesAt(pOpStk, cmpRegStk, FALSE) /\ Len(cmpRegStk) = 1
        BY <1>2, <1>11, <3>1 DEF Structured, Whole, Linked
      <3>3. QED
        BY <1>8, <3>2
    <2>3. Control'
      BY <1>1, <1>2, <2>1 DEF Control
    <2>4. Typed'
      BY <1>1, <1>2, <1>3, <2>1 DEF Typed, Valued
    <2>5. Counted'
      <3>1. Atoms' = 1
        BY <1>1, <1>3 DEF Atoms
      <3>2. QED
        BY <1>1, <1>6, <2>1, <3>1 DEF Counted
    <2>6. Structured' /\ Linked' /\ Finished'
      BY <1>1, <2>1, <2>2 DEF Structured, Whole, Linked, Finished
    <2>7. QED
      BY <1>9, <2>3, <2>4, <2>5, <2>6 DEF IInv
  <1>12. QED
    BY <1>3, <1>10, <1>11

-----------------------------------------------------------------------------
(* The operator that has been read waits in its turn; a right parenthesis  *)
(* never does, for the left one is there to be handled.                    *)

LEMMA PlacedIsInfix ==
  ASSUME IInv, pc = "place", ~(pOpStk # <<>> /\ WillHandle(op, Last(pOpStk)))
  PROVE  op \in InfixOps
  <1>1. Control /\ Typed /\ Bounded /\ Structured /\ Linked
    BY DEF IInv
  <1>2. op \in InfixOps \cup {Close}
    BY <1>1 DEF Control
  <1>3. SUFFICES ASSUME op = Close PROVE FALSE
    BY <1>2
  <1>4. Closing /\ Waiting = FALSE
    BY <1>3 DEF Closing, Waiting, Close, Compare
  <1>5. 1 <= Len(cmpRegStk) - 1 /\ Len(cmpRegStk) # 1
    <2>1. Len(cmpRegStk) - 1 = paren + 1 /\ paren \in Nat
      BY <1>1, <1>4 DEF Linked, Bounded
    <2>2. Len(cmpRegStk) \in Nat
      BY <1>1, CmpRegNat
    <2>3. QED
      BY <2>1, <2>2
  <1>6. FramesAt(pOpStk, cmpRegStk, FALSE) /\ cmpRegStk \in Seq(Nat)
    BY <1>1, <1>4, CmpRegNat DEF Structured, Whole
  <1>7. pOpStk # <<>>
    BY <1>5, <1>6, FramesShallow
  <1>8. Last(pOpStk) \in Ops
    BY <1>1, <1>7, FrontFacts DEF Typed
  <1>9. WillHandle(op, Last(pOpStk))
    <2>1. Precedence(Last(pOpStk)) \in 1..99
      BY <1>8, Precedences
    <2>2. Precedence(Close) = 100 /\ ~IsRightAssoc(Close)
      BY Precedences
    <2>3. Precedence(Last(pOpStk)) <= Precedence(Close)
      <3> DEFINE p == Precedence(Last(pOpStk))
                 q == Precedence(Close)
      <3>1. p \in 1..99 /\ q = 100
        BY <2>1, <2>2
      <3> HIDE DEF p, q
      <3>2. p <= q
        BY <3>1
      <3>3. QED
        BY <3>2 DEF p, q
    <2>4. WillHandle(Close, Last(pOpStk))
      BY <2>2, <2>3, Zenon DEF WillHandle
    <2>5. QED
      BY <1>3, <2>4
  <1>10. QED
    BY <1>7, <1>9

LEMMA PlaceInv ==
  IInv /\ Place => IInv'
  <1> SUFFICES ASSUME IInv, Place PROVE IInv'
    OBVIOUS
  <1> DEFINE m == Fetch(run, Rhs)
             i == RegOf(run, Rhs)
             x == [Rhs EXCEPT !.kind = "reg", !.at = i]
  <1>1. /\ pc = "place" /\ ~(pOpStk # <<>> /\ WillHandle(op, Last(pOpStk)))
        /\ pOpStk' = Append(pOpStk, op) /\ isAfterAtom' = FALSE /\ pc' = "read"
        /\ UNCHANGED <<lexemes, value, stale, paren, cmpRegStk, cmpLblStk, op, odd>>
    BY DEF Place, Fixed, chains
  <1>2. IF op.lex \in Logic
        THEN /\ run' = Tested(m, i, op.lex, labelCnt)
             /\ Push(1, x)
             /\ shortCircLblStk' = Append(shortCircLblStk, labelCnt)
             /\ labelCnt' = labelCnt + 1
        ELSE UNCHANGED <<run, pTkStk, shortCircLblStk, labelCnt>>
    BY DEF Place
  <1>3. /\ Control /\ Typed /\ Bounded /\ Counted /\ Logical /\ Structured /\ Linked
        /\ JumpHasLabel /\ Valued /\ run \in Machine /\ labelCnt \in Nat
        /\ shortCircLblStk \in Seq(Nat) /\ cmpLblStk \in Seq(Nat)
        /\ pOpStk \in Seq(Ops) /\ pTkStk \in Seq(Operands(Len(run.reg)))
        /\ cmpRegStk # <<>>
    BY DEF IInv, Typed
  <1>4. op \in InfixOps /\ op \in Ops /\ op.lex # "(" /\ op.lex # ")"
        /\ InfixWeight[op] = 1
        /\ LogicWeight[op] = IF op.lex \in Logic THEN 1 ELSE 0
    <2>1. op \in InfixOps
      BY <1>1, PlacedIsInfix
    <2>2. QED
      BY <2>1, InputsAssumption DEF InfixOps, Ops, InfixWeight, LogicWeight
  <1>5. cmpRegStk \in Seq(Nat) /\ Len(cmpRegStk) \in Nat /\ Len(pTkStk) \in Nat
    BY <1>3, CmpRegNat, LenProperties
  <1>6. CountsAt(pOpStk, cmpRegStk, Len(cmpLblStk), Len(pTkStk) - 1)
    <2>1. Atoms = 1
      BY <1>1, <1>3 DEF Control, Atoms
    <2>2. QED
      BY <1>1, <1>3, <2>1 DEF Counted, Going
  <1>7. 1 <= Len(pTkStk) /\ Rhs \in Operands(Len(run.reg))
    <2>1. Len(pTkStk) - 1 \in Nat
      BY <1>3, <1>5, <1>6, CountsNat
    <2>2. 1 <= Len(pTkStk)
      BY <1>5, <2>1
    <2>3. pTkStk # <<>>
      BY <1>3, <2>2, EmptySeq
    <2>4. QED
      BY <1>3, <2>2, <2>3, FrontFacts DEF Rhs
  <1>8. pOpStk' \in Seq(Ops)
    BY <1>1, <1>3, <1>4, AppendProperties
  <1>9. /\ m \in Machine /\ m.skip = run.skip /\ Len(run.reg) <= Len(m.reg)
        /\ i \in 1..Len(m.reg)
    BY <1>3, <1>7, FetchFacts
  <1>10. x \in Operands(Len(m.reg))
    <2>1. Rhs \in [kind : {"name", "reg"}, at : Nat, isLValue : BOOLEAN]
      <3>1. DOMAIN Names \subseteq Nat
        BY InputsAssumption
      <3>2. CASE Rhs \in NameOps
        BY <3>1, <3>2 DEF NameOps
      <3>3. CASE Rhs \in RegOps(Len(run.reg))
        BY <3>3 DEF RegOps
      <3>4. QED
        BY <1>7, <3>2, <3>3 DEF Operands
    <2> HIDE DEF m, i
    <2>2. x \in RegOps(Len(m.reg))
      BY <1>9, <2>1 DEF RegOps
    <2>3. QED
      BY <2>2 DEF Operands
  <1> HIDE DEF m, i, x
  <1>11. /\ run' \in Machine /\ Len(run.reg) <= Len(run'.reg)
         /\ pTkStk' \in Seq(Operands(Len(run'.reg))) /\ Len(pTkStk') = Len(pTkStk)
         /\ shortCircLblStk' \in Seq(Nat) /\ labelCnt' \in Nat
         /\ Len(shortCircLblStk') = Len(shortCircLblStk) + LogicWeight[op]
         /\ Range(shortCircLblStk) \subseteq Range(shortCircLblStk')
         /\ run'.skip = run.skip \/ run'.skip \in Range(shortCircLblStk')
    <2>1. CASE op.lex \in Logic
      <3>1. /\ run' \in Machine /\ Len(run'.reg) = Len(m.reg)
            /\ run'.skip = m.skip \/ run'.skip = labelCnt
        BY <1>2, <1>3, <1>9, <2>1, TestedFacts
      <3>2. Operands(Len(run.reg)) \subseteq Operands(Len(run'.reg))
        BY <1>3, <1>9, <3>1, Widened
      <3>3. /\ pTkStk' \in Seq(Operands(Len(run'.reg)))
            /\ Len(pTkStk') = Len(pTkStk) - 1 + 1
        BY <1>2, <1>3, <1>7, <1>10, <2>1, <3>1, <3>2, PushedOperand
      <3>4. /\ shortCircLblStk' \in Seq(Nat)
            /\ Len(shortCircLblStk') = Len(shortCircLblStk) + 1
            /\ labelCnt' \in Nat
        <4>1. shortCircLblStk' = Append(shortCircLblStk, labelCnt)
          BY <1>2, <2>1
        <4>2. shortCircLblStk \in Seq(Nat) /\ labelCnt \in Nat
          BY <1>3
        <4>3. labelCnt' \in Nat
          BY <1>2, <2>1, <4>2
        <4>4. QED
          BY <4>1, <4>2, <4>3, AppendProperties
      <3>5. Range(shortCircLblStk) \cup {labelCnt} \subseteq Range(shortCircLblStk')
        BY <1>2, <1>3, <2>1, AppendRange
      <3>6. Len(pTkStk) - 1 + 1 = Len(pTkStk) /\ LogicWeight[op] = 1
        BY <1>4, <1>5, <2>1
      <3>7. run'.skip = run.skip \/ run'.skip \in Range(shortCircLblStk')
        BY <1>9, <3>1, <3>5
      <3>8. QED
        BY <1>9, <3>1, <3>3, <3>4, <3>5, <3>6, <3>7
    <2>2. CASE op.lex \notin Logic
      <3>1. UNCHANGED <<run, pTkStk, shortCircLblStk, labelCnt>> /\ LogicWeight[op] = 0
        BY <1>2, <1>4, <2>2
      <3>2. Len(run.reg) \in Nat /\ Len(shortCircLblStk) \in Nat
        BY <1>3, RegLen, LenProperties
      <3>3. QED
        BY <1>3, <3>1, <3>2
    <2>3. QED
      BY <2>1, <2>2
  <1>12. cmpRegStk' \in Seq(0..Len(run'.reg))
    BY <1>1, <1>3, <1>11, Widened
  <1>13. Control'
    BY <1>1, <1>3 DEF Control
  <1>14. Typed'
    BY <1>1, <1>3, <1>8, <1>11, <1>12 DEF Typed, Valued
  <1>15. Bounded'
    BY <1>1, <1>3 DEF Bounded, Used
  <1>16. Counted'
    <2>1. CountsAt(pOpStk', cmpRegStk, Len(cmpLblStk), (Len(pTkStk) - 1) + InfixWeight[op])
      BY <1>1, <1>3, <1>4, <1>5, <1>6, CountsPush
    <2>2. Atoms' = 0
      BY <1>1 DEF Atoms
    <2>3. (Len(pTkStk) - 1) + InfixWeight[op] = Len(pTkStk') - Atoms'
      BY <1>4, <1>5, <1>11, <2>2
    <2>4. QED
      BY <1>1, <2>1, <2>3 DEF Counted
  <1>17. Logical'
    <2>1. Tally(pOpStk', LogicWeight, Len(shortCircLblStk) + LogicWeight[op])
      BY <1>1, <1>3, <1>4, WeightTypes, TallyAppend DEF Logical
    <2>2. QED
      BY <1>11, <2>1 DEF Logical
  <1>18. Structured'
    <2>1. FramesAt(pOpStk, cmpRegStk, Waiting)
      BY <1>1, <1>3 DEF Structured, Whole
    <2>2. Waiting => op.lex \in Compare
      BY DEF Waiting
    <2>3. FramesAt(Append(pOpStk, op), cmpRegStk, FALSE)
      BY <1>3, <1>4, <1>5, <2>1, <2>2, FramesPush
    <2>4. Waiting' = FALSE
      BY <1>1 DEF Waiting
    <2>5. QED
      BY <1>1, <2>3, <2>4 DEF Structured
  <1>19. Linked' /\ Finished'
    BY <1>1, <1>3, <1>4 DEF Linked, Closing, Finished
  <1>20. JumpHasLabel'
    BY <1>1, <1>3, <1>11 DEF JumpHasLabel
  <1>21. QED
    BY <1>13, <1>14, <1>15, <1>16, <1>17, <1>18, <1>19, <1>20 DEF IInv

-----------------------------------------------------------------------------
(* Comparisons. *)

(* What both kinds of comparison start from. *)
LEMMA CompareFacts ==
  ASSUME IInv, Handling(Compare)
  PROVE  /\ 2 <= Len(pTkStk) /\ Len(pTkStk) \in Nat
         /\ pTkStk \in Seq(Operands(Len(run.reg)))
         /\ Rhs \in Operands(Len(run.reg))
         /\ CountsAt(Front(pOpStk), cmpRegStk, Len(cmpLblStk), Len(pTkStk) - 2)
         /\ Front(pOpStk) \in Seq(Ops) /\ Last(pOpStk).lex # "("
         /\ Last(pOpStk).lex \notin Logic
         /\ Both \in Machine /\ Both.skip = run.skip /\ Len(run.reg) <= Len(Both.reg)
         /\ RegL \in 1..Len(Both.reg) /\ RegR \in 1..Len(Both.reg)
         /\ MovReg \in 1..Len(Both.reg)
         /\ Top(cmpRegStk) = Last(cmpRegStk)
  <1>1. Typed /\ Valued /\ run \in Machine /\ cmpRegStk # <<>>
    BY DEF IInv, Typed
  <1>2. /\ Last(pOpStk) \in Ops /\ Last(pOpStk).lex \in Compare
        /\ Front(pOpStk) \in Seq(Ops)
        /\ pTkStk \in Seq(Operands(Len(run.reg))) /\ Len(pTkStk) \in Nat
        /\ Rhs \in Operands(Len(run.reg))
    BY HandlingFacts
  <1>3. Last(pOpStk).syntax = "infix"
    BY <1>2, InfixSyntax
  <1>4. /\ 2 <= Len(pTkStk) /\ Lhs \in Operands(Len(run.reg))
        /\ CountsAt(Front(pOpStk), cmpRegStk, Len(cmpLblStk), Len(pTkStk) - 2)
    BY <1>3, InfixFacts
  <1>5. /\ Both \in Machine /\ Both.skip = run.skip /\ Len(run.reg) <= Len(Both.reg)
        /\ RegL \in 1..Len(Both.reg) /\ RegR \in 1..Len(Both.reg)
    BY <1>1, <1>2, <1>4, BothFacts DEF Both, RegL, RegR
  <1>6. Last(pOpStk).lex # "(" /\ Last(pOpStk).lex \notin Logic
    BY <1>2 DEF Compare, Logic
  <1>7. Top(cmpRegStk) = Last(cmpRegStk)
    BY <1>1 DEF Top
  <1>8. MovReg \in 1..Len(Both.reg)
    <2>1. Last(cmpRegStk) \in 0..Len(run.reg) /\ Len(run.reg) \in Nat
      BY <1>1, CmpRegNat
    <2>2. Len(Both.reg) \in Nat
      BY <1>5, RegLen
    <2>3. Last(cmpRegStk) # 0 => Last(cmpRegStk) \in 1..Len(Both.reg)
      BY <1>5, <2>1, <2>2
    <2>4. QED
      BY <1>5, <1>7, <2>3 DEF MovReg
  <1>9. QED
    BY <1>2, <1>4, <1>5, <1>6, <1>7, <1>8

(* Two operands in the place of two. *)
LEMMA PairPushed ==
  ASSUME NEW S, NEW s \in Seq(S), NEW n \in Nat, n <= Len(s),
         NEW T, S \subseteq T, NEW x \in T, NEW y \in T
  PROVE  /\ SubSeq(s, 1, n) \o <<x, y>> \in Seq(T)
         /\ Len(SubSeq(s, 1, n) \o <<x, y>>) = n + 2
  <1> DEFINE q == SubSeq(s, 1, n)
  <1>1. q \in Seq(S) /\ Len(q) = n
    BY Dropped
  <1>2. q \in Seq(T)
    BY <1>1, SeqGrow
  <1> HIDE DEF q
  <1>3. <<x, y>> \in Seq(T) /\ Len(<<x, y>>) = 2
    OBVIOUS
  <1>4. QED
    BY <1>1, <1>2, <1>3, ConcatProperties DEF q

LEMMA PairedOperands ==
  ASSUME NEW S, pTkStk \in Seq(S), NEW T, S \subseteq T, NEW x \in T, NEW y \in T,
         2 <= Len(pTkStk),
         pTkStk' = SubSeq(pTkStk, 1, Len(pTkStk) - 2) \o <<x, y>>
  PROVE  pTkStk' \in Seq(T) /\ Len(pTkStk') = Len(pTkStk)
  <1> DEFINE n == Len(pTkStk) - 2
  <1>1. Len(pTkStk) \in Nat
    BY LenProperties
  <1>2. n \in Nat /\ n <= Len(pTkStk) /\ n + 2 = Len(pTkStk)
    BY <1>1
  <1>3. pTkStk' = SubSeq(pTkStk, 1, n) \o <<x, y>>
    OBVIOUS
  <1> HIDE DEF n
  <1>4. QED
    BY <1>2, <1>3, PairPushed

LEMMA HandleCompareInChainInv ==
  IInv /\ HandleCompareInChain => IInv'
  <1> SUFFICES ASSUME IInv, HandleCompareInChain PROVE IInv'
    OBVIOUS
  <1> DEFINE o == Last(pOpStk)
             lbl == Top(cmpLblStk')
             m == Compared(Both, RegL, RegR, o.lex, MovReg)
  <1>1. /\ Handling(Compare) /\ op.lex \in Compare
        /\ run' = JumpIf(m, Failed(Both, RegL, RegR, o.lex), lbl)
        /\ pOpStk' = Front(pOpStk)
        /\ UNCHANGED <<lexemes, value, stale, pc, isAfterAtom, paren,
                       shortCircLblStk, op, odd>>
    BY DEF HandleCompareInChain, Fixed
  <1>2. IF Top(cmpRegStk) = 0
        THEN /\ pTkStk' = SubSeq(pTkStk, 1, Len(pTkStk) - 2) \o <<Reg(RegL), Rhs>>
             /\ cmpLblStk' = Append(cmpLblStk, labelCnt)
             /\ labelCnt' = labelCnt + 1
             /\ cmpRegStk' = SetTop(cmpRegStk, RegL)
        ELSE Push(2, Rhs) /\ UNCHANGED <<cmpLblStk, labelCnt, cmpRegStk>>
    BY DEF HandleCompareInChain
  <1>3. /\ Typed /\ Control /\ JumpHasLabel /\ cmpLblStk \in Seq(Nat)
        /\ labelCnt \in Nat /\ cmpRegStk # <<>> /\ shortCircLblStk \in Seq(Nat)
    BY DEF IInv, Typed
  <1>4. /\ 2 <= Len(pTkStk) /\ Len(pTkStk) \in Nat
        /\ pTkStk \in Seq(Operands(Len(run.reg))) /\ Rhs \in Operands(Len(run.reg))
        /\ CountsAt(Front(pOpStk), cmpRegStk, Len(cmpLblStk), Len(pTkStk) - 2)
        /\ Front(pOpStk) \in Seq(Ops) /\ o.lex # "(" /\ o.lex \notin Logic
        /\ Both \in Machine /\ Both.skip = run.skip /\ Len(run.reg) <= Len(Both.reg)
        /\ RegL \in 1..Len(Both.reg) /\ RegR \in 1..Len(Both.reg)
        /\ MovReg \in 1..Len(Both.reg) /\ Top(cmpRegStk) = Last(cmpRegStk)
    BY <1>1, CompareFacts
  <1>5. Waiting
    <2>1. pc \in {"place", "end"}
      BY <1>1, HandlingFacts
    <2>2. pc = "end" => op = NoOp
      BY <1>3 DEF Control
    <2>3. NoOp.lex \notin Compare
      BY DEF NoOp, Compare
    <2>4. pc # "end"
      BY <1>1, <2>2, <2>3
    <2>5. QED
      BY <1>1, <2>1, <2>4 DEF Waiting
  <1> HIDE DEF o
  <1>6. m \in Machine /\ Len(m.reg) = Len(Both.reg) /\ m.skip = run.skip
    <2>1. Plain(Both, m)
      BY <1>4, ComparedFacts
    <2> HIDE DEF m
    <2>2. QED
      BY <1>4, <2>1 DEF Plain
  <1> HIDE DEF m
  <1>7. /\ cmpRegStk \in Seq(Nat) /\ Len(cmpRegStk) \in Nat
        /\ cmpRegStk \in Seq(0..Len(m.reg))
        /\ Operands(Len(run.reg)) \subseteq Operands(Len(m.reg))
        /\ Len(m.reg) \in Nat
    BY <1>3, <1>4, <1>6, CmpRegNat, Widened, RegLen
  <1>8. /\ cmpLblStk' \in Seq(Nat) /\ labelCnt' \in Nat
        /\ Range(cmpLblStk) \subseteq Range(cmpLblStk')
    <2>1. CASE Top(cmpRegStk) = 0
      <3>1. cmpLblStk' = Append(cmpLblStk, labelCnt) /\ labelCnt' = labelCnt + 1
        BY <1>2, <2>1
      <3>2. labelCnt' \in Nat
        BY <1>3, <3>1
      <3>3. QED
        BY <1>3, <3>1, <3>2, AppendProperties, AppendRange
    <2>2. CASE Top(cmpRegStk) # 0
      BY <1>2, <1>3, <2>2
    <2>3. QED
      BY <2>1, <2>2
  <1>9. lbl \in Nat /\ (lbl # 0 => lbl \in Range(cmpLblStk'))
    BY <1>8, TopFacts
  <1> HIDE DEF lbl
  <1>10. /\ run' \in Machine /\ run'.reg = m.reg
         /\ run'.skip = run.skip \/ (run'.skip = lbl /\ lbl # 0)
    BY <1>1, <1>6, <1>9, JumpIfFacts
  <1>11. JumpHasLabel'
    BY <1>1, <1>3, <1>8, <1>9, <1>10 DEF JumpHasLabel
  <1>12. /\ cmpRegStk' \in Seq(0..Len(run'.reg)) /\ Len(cmpRegStk') = Len(cmpRegStk)
         /\ \A k \in 1..Len(cmpRegStk) - 1 : cmpRegStk'[k] = cmpRegStk[k]
         /\ pTkStk' \in Seq(Operands(Len(run'.reg)))
         /\ CountsAt(Front(pOpStk), cmpRegStk', Len(cmpLblStk'), Len(pTkStk') - 1)
    <2>1. CASE Top(cmpRegStk) = 0
      <3>1. /\ pTkStk' = SubSeq(pTkStk, 1, Len(pTkStk) - 2) \o <<Reg(RegL), Rhs>>
            /\ cmpLblStk' = Append(cmpLblStk, labelCnt)
            /\ cmpRegStk' = SetTop(cmpRegStk, RegL)
        BY <1>2, <2>1
      <3>2. RegL \in 0..Len(m.reg) /\ RegL \in Nat /\ RegL # 0
        BY <1>4, <1>6, <1>7
      <3>3. /\ cmpRegStk' \in Seq(0..Len(m.reg)) /\ Len(cmpRegStk') = Len(cmpRegStk)
            /\ \A k \in 1..Len(cmpRegStk) - 1 : cmpRegStk'[k] = cmpRegStk[k]
        <4> DEFINE S == 0..Len(m.reg)
        <4>1. cmpRegStk \in Seq(S) /\ RegL \in S
          BY <1>7, <3>2
        <4> HIDE DEF S
        <4>2. /\ SetTop(cmpRegStk, RegL) \in Seq(S)
              /\ Len(SetTop(cmpRegStk, RegL)) = Len(cmpRegStk)
              /\ \A k \in 1..Len(cmpRegStk) - 1 : SetTop(cmpRegStk, RegL)[k] = cmpRegStk[k]
          BY <1>3, <4>1, SetTopFacts
        <4>3. QED
          BY <3>1, <4>2 DEF S
      <3>4. Reg(RegL) \in Operands(Len(m.reg)) /\ Rhs \in Operands(Len(m.reg))
        BY <1>4, <1>6, <1>7, RegFacts
      <3>5. pTkStk' \in Seq(Operands(Len(m.reg))) /\ Len(pTkStk') = Len(pTkStk)
        BY <1>4, <1>7, <3>1, <3>4, PairedOperands
      <3>6. Len(cmpLblStk') = Len(cmpLblStk) + 1 /\ Len(cmpLblStk) \in Nat
        BY <1>3, <3>1, AppendProperties, LenProperties
      <3>7. OpenWeight[RegL] = 1 /\ OpenWeight[Last(cmpRegStk)] = 0
        BY <1>4, <2>1, <3>2 DEF OpenWeight
      <3>8. CountsAt(Front(pOpStk), cmpRegStk', Len(cmpLblStk'), (Len(pTkStk) - 2) + 1)
        <4>1. \A k \in Nat :
                k <= Len(cmpLblStk) + (OpenWeight[RegL] - OpenWeight[Last(cmpRegStk)]) \/ k = 0
                => CountsAt(Front(pOpStk), SetTop(cmpRegStk, RegL), k,
                            (Len(pTkStk) - 2)
                              + (OpenWeight[RegL] - OpenWeight[Last(cmpRegStk)]))
          BY <1>3, <1>4, <1>7, <3>2, CountsSetTop
        <4>2. OpenWeight[RegL] - OpenWeight[Last(cmpRegStk)] = 1
          BY <3>7
        <4>3. Len(cmpLblStk') \in Nat /\ Len(cmpLblStk') <= Len(cmpLblStk) + 1
          BY <3>6
        <4>4. \A k \in Nat : k <= Len(cmpLblStk) + 1 \/ k = 0
                => CountsAt(Front(pOpStk), SetTop(cmpRegStk, RegL), k,
                            (Len(pTkStk) - 2) + 1)
          BY <4>1, <4>2
        <4>5. QED
          BY <3>1, <4>3, <4>4
      <3>9. (Len(pTkStk) - 2) + 1 = Len(pTkStk') - 1
        BY <1>4, <3>5
      <3>10. CountsAt(Front(pOpStk), cmpRegStk', Len(cmpLblStk'), Len(pTkStk') - 1)
        BY <3>8, <3>9
      <3>11. QED
        BY <1>10, <3>3, <3>5, <3>10
    <2>2. CASE Top(cmpRegStk) # 0
      <3>1. Push(2, Rhs) /\ cmpLblStk' = cmpLblStk /\ cmpRegStk' = cmpRegStk
        BY <1>2, <2>2
      <3>2. Rhs \in Operands(Len(m.reg))
        BY <1>4, <1>7
      <3>3. /\ pTkStk' \in Seq(Operands(Len(m.reg)))
            /\ Len(pTkStk') = Len(pTkStk) - 2 + 1
        BY <1>4, <1>7, <3>1, <3>2, PushedOperand
      <3>4. Len(pTkStk') - 1 = Len(pTkStk) - 2
        BY <1>4, <3>3
      <3>5. CountsAt(Front(pOpStk), cmpRegStk', Len(cmpLblStk'), Len(pTkStk') - 1)
        BY <1>4, <3>1, <3>4
      <3>6. QED
        BY <1>7, <1>10, <3>1, <3>3, <3>5
    <2>3. QED
      BY <2>1, <2>2
  <1>13. Tally(Front(pOpStk), LogicWeight, Len(shortCircLblStk'))
    BY <1>1, <1>4, LogicalKept DEF o
  <1>14. shortCircLblStk' \in Seq(Nat) /\ odd' \subseteq {"unclosed", "bits", "stolen"}
    BY <1>1, <1>3 DEF Control
  <1>15. QED
    BY <1>1, <1>4, <1>5, <1>8, <1>10, <1>11, <1>12, <1>13, <1>14, PopInv DEF o

LEMMA HandleCompareLastInv ==
  IInv /\ HandleCompareLast => IInv'
  <1> SUFFICES ASSUME IInv, HandleCompareLast PROVE IInv'
    OBVIOUS
  <1> DEFINE o == Last(pOpStk)
             lbl == Top(cmpLblStk)
             m == Compared(Both, RegL, RegR, o.lex, MovReg)
  <1>1. /\ Handling(Compare)
        /\ run' = Emitted(m, lbl)
        /\ pOpStk' = Front(pOpStk)
        /\ cmpLblStk' = IF cmpLblStk = <<>> THEN <<>> ELSE Front(cmpLblStk)
        /\ cmpRegStk' = SetTop(cmpRegStk, 0)
        /\ UNCHANGED <<lexemes, value, stale, pc, isAfterAtom, paren,
                       shortCircLblStk, labelCnt, op>>
    BY DEF HandleCompareLast, Fixed
  <1>2. IF Top(cmpRegStk) = 0 THEN Push(2, Reg(RegL))
        ELSE pTkStk' = SubSeq(pTkStk, 1, Len(pTkStk) - 2)
    BY DEF HandleCompareLast
  <1>3. /\ Typed /\ Control /\ JumpHasLabel /\ cmpLblStk \in Seq(Nat)
        /\ labelCnt \in Nat /\ cmpRegStk # <<>> /\ shortCircLblStk \in Seq(Nat)
    BY DEF IInv, Typed
  <1>4. /\ 2 <= Len(pTkStk) /\ Len(pTkStk) \in Nat
        /\ pTkStk \in Seq(Operands(Len(run.reg))) /\ Rhs \in Operands(Len(run.reg))
        /\ CountsAt(Front(pOpStk), cmpRegStk, Len(cmpLblStk), Len(pTkStk) - 2)
        /\ Front(pOpStk) \in Seq(Ops) /\ o.lex # "(" /\ o.lex \notin Logic
        /\ Both \in Machine /\ Both.skip = run.skip /\ Len(run.reg) <= Len(Both.reg)
        /\ RegL \in 1..Len(Both.reg) /\ RegR \in 1..Len(Both.reg)
        /\ MovReg \in 1..Len(Both.reg) /\ Top(cmpRegStk) = Last(cmpRegStk)
    BY <1>1, CompareFacts
  <1>5. odd' \subseteq {"unclosed", "bits", "stolen"}
    <2>1. odd' \subseteq odd \cup {"stolen"}
      BY DEF HandleCompareLast
    <2>2. QED
      BY <1>3, <2>1 DEF Control
  <1> HIDE DEF o
  <1>6. m \in Machine /\ Len(m.reg) = Len(Both.reg) /\ m.skip = run.skip
    <2>1. Plain(Both, m)
      BY <1>4, ComparedFacts
    <2> HIDE DEF m
    <2>2. QED
      BY <1>4, <2>1 DEF Plain
  <1> HIDE DEF m
  <1>7. /\ cmpRegStk \in Seq(Nat) /\ Len(cmpRegStk) \in Nat
        /\ cmpRegStk \in Seq(0..Len(m.reg))
        /\ Operands(Len(run.reg)) \subseteq Operands(Len(m.reg))
        /\ Len(m.reg) \in Nat
    BY <1>3, <1>4, <1>6, CmpRegNat, Widened, RegLen
  <1>8. /\ run' \in Machine /\ run'.reg = m.reg
        /\ run'.skip = 0 \/ (run'.skip = run.skip /\ run.skip # lbl)
    BY <1>1, <1>6, EmittedFacts
  <1>9. /\ cmpLblStk' \in Seq(Nat) /\ Len(cmpLblStk) \in Nat
        /\ Len(cmpLblStk') = IF cmpLblStk = <<>> THEN 0 ELSE Len(cmpLblStk) - 1
        /\ Range(cmpLblStk) \subseteq Range(cmpLblStk') \cup {lbl}
    <2>1. Len(cmpLblStk) \in Nat
      BY <1>3, LenProperties
    <2>2. CASE cmpLblStk = <<>>
      <3>1. cmpLblStk' = cmpLblStk
        BY <1>1, <2>2
      <3>2. QED
        BY <1>3, <2>1, <2>2, <3>1
    <2>3. CASE cmpLblStk # <<>>
      <3>1. cmpLblStk' = Front(cmpLblStk) /\ lbl = Last(cmpLblStk)
        BY <1>1, <2>3 DEF Top
      <3>2. Range(cmpLblStk) \subseteq Range(cmpLblStk') \cup {lbl}
        BY <1>3, <2>3, <3>1, FrontRange
      <3>3. cmpLblStk' \in Seq(Nat) /\ Len(cmpLblStk') = Len(cmpLblStk) - 1
        BY <1>3, <2>3, <3>1, FrontFacts
      <3>4. QED
        BY <2>1, <2>3, <3>2, <3>3
    <2>4. QED
      BY <2>2, <2>3
  <1> HIDE DEF lbl
  <1>10. JumpHasLabel'
    BY <1>1, <1>3, <1>8, <1>9 DEF JumpHasLabel
  <1>11. /\ cmpRegStk' \in Seq(0..Len(m.reg)) /\ Len(cmpRegStk') = Len(cmpRegStk)
         /\ cmpRegStk'[Len(cmpRegStk)] = 0
         /\ \A k \in 1..Len(cmpRegStk) - 1 : cmpRegStk'[k] = cmpRegStk[k]
    <2> DEFINE S == 0..Len(m.reg)
    <2>1. cmpRegStk \in Seq(S) /\ 0 \in S
      BY <1>7
    <2> HIDE DEF S
    <2>2. /\ SetTop(cmpRegStk, 0) \in Seq(S)
          /\ Len(SetTop(cmpRegStk, 0)) = Len(cmpRegStk)
          /\ SetTop(cmpRegStk, 0)[Len(cmpRegStk)] = 0
          /\ \A k \in 1..Len(cmpRegStk) - 1 : SetTop(cmpRegStk, 0)[k] = cmpRegStk[k]
      BY <1>3, <2>1, SetTopFacts
    <2>3. QED
      BY <1>1, <2>2 DEF S
  <1>12. \A k \in Nat :
           k <= Len(cmpLblStk) + (OpenWeight[0] - OpenWeight[Last(cmpRegStk)]) \/ k = 0
           => CountsAt(Front(pOpStk), SetTop(cmpRegStk, 0), k,
                       (Len(pTkStk) - 2) + (OpenWeight[0] - OpenWeight[Last(cmpRegStk)]))
    BY <1>3, <1>4, <1>7, CountsSetTop
  <1>13. Last(cmpRegStk) \in Nat
    BY <1>3, <1>7, FrontFacts
  <1>14. /\ pTkStk' \in Seq(Operands(Len(m.reg)))
         /\ CountsAt(Front(pOpStk), cmpRegStk', Len(cmpLblStk'), Len(pTkStk') - 1)
    <2>1. CASE Top(cmpRegStk) = 0
      <3>1. OpenWeight[0] - OpenWeight[Last(cmpRegStk)] = 0
        BY <1>4, <2>1 DEF OpenWeight
      <3>2. Push(2, Reg(RegL))
        BY <1>2, <2>1
      <3>3. Reg(RegL) \in Operands(Len(m.reg))
        BY <1>4, <1>6, <1>7, RegFacts
      <3>4. /\ pTkStk' \in Seq(Operands(Len(m.reg)))
            /\ Len(pTkStk') = Len(pTkStk) - 2 + 1
        BY <1>4, <1>7, <3>2, <3>3, PushedOperand
      <3>5. (Len(pTkStk) - 2) + (OpenWeight[0] - OpenWeight[Last(cmpRegStk)])
              = Len(pTkStk') - 1
        BY <1>4, <3>1, <3>4
      <3>6. /\ Len(cmpLblStk') \in Nat
            /\ Len(cmpLblStk')
                 <= Len(cmpLblStk) + (OpenWeight[0] - OpenWeight[Last(cmpRegStk)])
               \/ Len(cmpLblStk') = 0
        <4>1. Len(cmpLblStk') \in Nat
          BY <1>9, LenProperties
        <4>2. Len(cmpLblStk') <= Len(cmpLblStk)
          BY <1>9, <4>1
        <4>3. QED
          BY <1>9, <3>1, <4>1, <4>2
      <3>7. CountsAt(Front(pOpStk), cmpRegStk', Len(cmpLblStk'), Len(pTkStk') - 1)
        BY <1>1, <1>12, <3>5, <3>6
      <3>8. QED
        BY <3>4, <3>7
    <2>2. CASE Top(cmpRegStk) # 0
      <3>1. OpenWeight[0] - OpenWeight[Last(cmpRegStk)] = -1
        BY <1>4, <1>13, <2>2 DEF OpenWeight
      <3>2. pTkStk' = SubSeq(pTkStk, 1, Len(pTkStk) - 2)
        BY <1>2, <2>2
      <3>3. pTkStk' \in Seq(Operands(Len(m.reg))) /\ Len(pTkStk') = Len(pTkStk) - 2
        <4> DEFINE n == Len(pTkStk) - 2
        <4>1. n \in Nat /\ n <= Len(pTkStk)
          BY <1>4
        <4>2. pTkStk' = SubSeq(pTkStk, 1, n)
          BY <3>2
        <4> HIDE DEF n
        <4>3. pTkStk' \in Seq(Operands(Len(run.reg))) /\ Len(pTkStk') = n
          BY <1>4, <4>1, <4>2, Dropped
        <4>4. pTkStk' \in Seq(Operands(Len(m.reg)))
          BY <1>7, <4>3, SeqGrow
        <4>5. QED
          BY <4>3, <4>4 DEF n
      <3>4. (Len(pTkStk) - 2) + (OpenWeight[0] - OpenWeight[Last(cmpRegStk)])
              = Len(pTkStk') - 1
        BY <1>4, <3>1, <3>3
      <3>5. /\ Len(cmpLblStk') \in Nat
            /\ Len(cmpLblStk')
                 <= Len(cmpLblStk) + (OpenWeight[0] - OpenWeight[Last(cmpRegStk)])
               \/ Len(cmpLblStk') = 0
        <4>1. Len(cmpLblStk') \in Nat
          BY <1>9, LenProperties
        <4>2. Len(cmpLblStk') <= Len(cmpLblStk) + -1 \/ Len(cmpLblStk') = 0
          BY <1>9, <4>1
        <4>3. QED
          BY <3>1, <4>1, <4>2
      <3>6. CountsAt(Front(pOpStk), cmpRegStk', Len(cmpLblStk'), Len(pTkStk') - 1)
        BY <1>1, <1>12, <3>4, <3>5
      <3>7. QED
        BY <3>3, <3>6
    <2>3. QED
      BY <2>1, <2>2
  <1>15. Tally(Front(pOpStk), LogicWeight, Len(shortCircLblStk'))
    BY <1>1, <1>4, LogicalKept DEF o
  <1>16. shortCircLblStk' \in Seq(Nat) /\ labelCnt' \in Nat
    BY <1>1, <1>3
  <1>17. QED
    BY <1>1, <1>4, <1>5, <1>8, <1>9, <1>10, <1>11, <1>14, <1>15, <1>16, PopInv DEF o

-----------------------------------------------------------------------------
LEMMA StutterInv ==
  IInv /\ UNCHANGED vars => IInv'
  <1> SUFFICES ASSUME IInv, UNCHANGED vars PROVE IInv'
    OBVIOUS
  <1> USE DEF vars, parsing, chains
  <1>1. UNCHANGED <<Waiting, Whole, Closing, Atoms, Going>>
    BY DEF Waiting, Whole, Closing, Atoms, Going
  <1>2. Control' /\ Typed' /\ Bounded'
    BY DEF IInv, Control, Typed, Valued, Bounded, Used
  <1>3. Counted' /\ Logical' /\ Structured'
    BY <1>1 DEF IInv, Counted, Logical, Structured
  <1>4. Linked' /\ Finished' /\ JumpHasLabel'
    BY <1>1 DEF IInv, Linked, Finished, JumpHasLabel
  <1>5. QED
    BY <1>2, <1>3, <1>4 DEF IInv

LEMMA NextInv ==
  IInv /\ [Next]_vars => IInv'
  <1> SUFFICES ASSUME IInv, [Next]_vars PROVE IInv'
    OBVIOUS
  <1>1. CASE Atom
    BY <1>1, AtomInv
  <1>2. CASE PrefixOp
    BY <1>2, PrefixOpInv
  <1>3. CASE NotAnAtom
    BY <1>3, NotAnAtomInv
  <1>4. CASE InfixOp
    BY <1>4, InfixOpInv
  <1>5. CASE CloseParen
    BY <1>5, CloseParenInv
  <1>6. CASE Stop
    BY <1>6, StopInv
  <1>7. CASE HandlePrefix
    BY <1>7, HandlePrefixInv
  <1>8. CASE HandleArith
    BY <1>8, HandleArithInv
  <1>9. CASE HandleLogic
    BY <1>9, HandleLogicInv
  <1>10. CASE HandleAssign
    BY <1>10, HandleAssignInv
  <1>11. CASE HandleCompareInChain
    BY <1>11, HandleCompareInChainInv
  <1>12. CASE HandleCompareLast
    BY <1>12, HandleCompareLastInv
  <1>13. CASE HandleParen
    BY <1>13, HandleParenInv
  <1>14. CASE Place
    BY <1>14, PlaceInv
  <1>15. CASE End
    BY <1>15, EndInv
  <1>16. CASE UNCHANGED vars
    BY <1>16, StutterInv
  <1>17. QED
    BY <1>1, <1>2, <1>3, <1>4, <1>5, <1>6, <1>7, <1>8, <1>9, <1>10, <1>11, <1>12,
       <1>13, <1>14, <1>15, <1>16, Zenon DEF Next, Handle

LEMMA Agreement ==
  Spec => []IInv
  <1>1. Init => IInv
    BY InitInv
  <1>2. IInv /\ [Next]_vars => IInv'
    BY NextInv
  <1>3. QED
    BY <1>1, <1>2, PTL DEF Spec

(* The stacks stay in step with each other: a frame of chains for each     *)
(* open parenthesis and one outside, until the end is reached, and no      *)
(* operand in a register that was never written (exp.c:488-496, 617-643).  *)
THEOREM StacksInStep ==
  Spec => []TypeOK
  <1>1. IInv => TypeOK
    <2> SUFFICES ASSUME IInv PROVE TypeOK
      OBVIOUS
    <2>1. Control /\ Typed /\ Bounded /\ Linked
      BY DEF IInv
    <2>2. paren \in 0..MaxParen
      BY <2>1, InputsAssumption DEF Bounded
    <2>3. ASSUME NEW i \in DOMAIN pTkStk, pTkStk[i].kind = "reg"
          PROVE  pTkStk[i].at \in DOMAIN run.reg
      <3>1. pTkStk \in Seq(Operands(Len(run.reg))) /\ run.reg \in Seq(Int)
        BY <2>1 DEF Typed, Machine
      <3>2. pTkStk[i] \in Operands(Len(run.reg))
        BY <2>3, <3>1, LenProperties, ElementOfSeq
      <3>3. pTkStk[i].at \in 1..Len(run.reg)
        BY <2>3, <3>2 DEF Operands, NameOps, RegOps
      <3>4. QED
        BY <3>1, <3>3, LenProperties
    <2>4. /\ pc \in {"read", "place", "end", "done", "none", "error"}
          /\ odd \subseteq {"unclosed", "bits", "stolen"}
      BY <2>1 DEF Control
    <2>5. pc \in {"read", "place"} =>
            Len(cmpRegStk) - 1 = IF pc = "place" /\ op.lex = ")" THEN paren + 1
                                                                 ELSE paren
      BY <2>1 DEF Linked, Closing
    <2>6. QED
      BY <2>2, <2>3, <2>4, <2>5 DEF TypeOK
  <1>2. QED
    BY <1>1, Agreement, PTL

(* A jump that is taken is to a label that one of the two stacks still has *)
(* and a handler will emit, however && and || and chains of comparisons    *)
(* are nested (exp.c:648-678, handle.c:976-1000, op.c:285).                *)
THEOREM LabelsToCome ==
  Spec => []JumpHasLabel
  <1>1. IInv => JumpHasLabel
    BY DEF IInv
  <1>2. QED
    BY <1>1, Agreement, PTL

(* When an expression has been parsed every label of && and || has been    *)
(* taken off its stack, and if its parentheses are closed one operand is   *)
(* left and execution arrives at its end: no jump of the expression goes   *)
(* beyond it (exp.c:711-737).                                              *)
THEOREM ExpressionsEnd ==
  Spec => []NothingPending
  <1>1. IInv => NothingPending
    <2> SUFFICES ASSUME IInv, pc = "done"
                 PROVE  /\ shortCircLblStk = <<>>
                        /\ paren = 0 => Len(pTkStk) = 1 /\ run.skip = 0
      BY DEF NothingPending
    <2>1. /\ shortCircLblStk = <<>> /\ JumpHasLabel
          /\ paren = 0 => Len(pTkStk) = 1 /\ cmpLblStk = <<>>
      BY DEF IInv, Finished
    <2>2. Range(<<>>) = {}
      BY DEF Range
    <2>3. paren = 0 => run.skip = 0
      BY <2>1, <2>2 DEF JumpHasLabel
    <2>4. QED
      BY <2>1, <2>3
  <1>2. QED
    BY <1>1, Agreement, PTL

-----------------------------------------------------------------------------
(* A set with zero and every successor has every number: the induction     *)
(* theorems of the library take an operator, and this takes a set.         *)
LEMMA SetInduction ==
  ASSUME NEW S, 0 \in S, \A n \in S \cap Nat : n + 1 \in S
  PROVE  Nat \subseteq S
  <1> DEFINE T == Nat \ S
             Upto(k) == {a \in T : a <= k}
             F == {Upto(k) : k \in T}
             R == StrictSubsetOrdering(T)
  <1>1. IsWellFoundedOn(R, FiniteSubsetsOf(T))
    BY FS_StrictSubsetOrderingWellFounded
  <1>2. \A k \in T : Upto(k) \in SUBSET T /\ IsFiniteSet(Upto(k))
    <2> TAKE k \in T
    <2> DEFINE U == Upto(k)
    <2>1. U \in SUBSET Nat /\ k \in Nat /\ \A s \in U : s <= k
      OBVIOUS
    <2> HIDE DEF U
    <2>2. IsFiniteSet(U)
      BY <2>1, FS_BoundedSetOfNaturals
    <2>3. QED
      BY <2>2 DEF U
  <1>3. \A a, b \in SUBSET T : IsFiniteSet(a) /\ IsFiniteSet(b) /\ a \subseteq b /\ a # b
                                 => <<a, b>> \in R
    BY DEF StrictSubsetOrdering, FiniteSubsetsOf
  <1>4. F \subseteq FiniteSubsetsOf(T)
    BY <1>2 DEF FiniteSubsetsOf
  <1>5. SUFFICES ASSUME T # {} PROVE FALSE
    OBVIOUS
  <1>6. F # {}
    BY <1>5
  <1> HIDE DEF R, F
  <1>7. PICK x \in F : \A y \in F : ~(<<y, x>> \in R)
    BY <1>1, <1>4, <1>6, WFMin
  <1>8. PICK k \in T : x = Upto(k)
    BY DEF F
  <1>9. k \in Nat /\ k \notin S /\ k # 0
    OBVIOUS
  <1>10. k - 1 \in Nat /\ k = (k - 1) + 1
    BY <1>9
  <1>11. k - 1 \in T
    BY <1>9, <1>10
  <1>12. Upto(k - 1) \in F
    BY <1>11 DEF F
  <1>13. Upto(k - 1) \subseteq Upto(k) /\ k \in Upto(k) /\ k \notin Upto(k - 1)
    BY <1>9, <1>10
  <1>14. <<Upto(k - 1), Upto(k)>> \in R
    <2> DEFINE a == Upto(k - 1)
               b == Upto(k)
    <2>1. /\ a \in SUBSET T /\ b \in SUBSET T /\ IsFiniteSet(a) /\ IsFiniteSet(b)
          /\ a \subseteq b /\ a # b
      BY <1>2, <1>11, <1>13
    <2> HIDE DEF a, b
    <2>2. <<a, b>> \in R
      BY <1>3, <2>1
    <2>3. QED
      BY <2>2 DEF a, b
  <1>15. QED
    BY <1>7, <1>8, <1>12, <1>14

(* g has a at 0 and goes on by step, up to k or without end.               *)
Starts(g, k, T, a, step) ==
  g \in [0..k -> T] /\ g[0] = a /\ \A i \in 0..(k - 1) : g[i + 1] = step[i + 1][g[i]]

Goes(f, T, a, step) ==
  f \in [Nat -> T] /\ f[0] = a /\ \A i \in Nat : f[i + 1] = step[i + 1][f[i]]

(* Two functions built by the same steps from the same start agree. *)
LEMMA Unique ==
  ASSUME NEW k \in Nat, NEW T, NEW a, NEW step, NEW g, NEW h,
         Starts(g, k, T, a, step), Starts(h, k, T, a, step)
  PROVE  g = h
  <1> DEFINE S == {i \in Nat : i <= k => g[i] = h[i]}
  <1>1. 0 \in S
    BY DEF Starts
  <1>2. \A n \in S \cap Nat : n + 1 \in S
    <2> SUFFICES ASSUME NEW n \in Nat, n \in S, n + 1 <= k PROVE g[n + 1] = h[n + 1]
      OBVIOUS
    <2>1. n \in 0..(k - 1) /\ g[n] = h[n]
      OBVIOUS
    <2>2. QED
      BY <2>1 DEF Starts
  <1> HIDE DEF S
  <1>3. Nat \subseteq S
    BY <1>1, <1>2, SetInduction
  <1>4. \A i \in 0..k : g[i] = h[i]
    BY <1>3 DEF S
  <1>5. g \in [0..k -> T] /\ h \in [0..k -> T]
    BY DEF Starts
  <1>6. QED
    BY <1>4, <1>5

(* A first value and a way from each to the next define a function.        *)
LEMMA Recursion ==
  ASSUME NEW T, NEW a \in T, NEW step \in [Nat -> [T -> T]]
  PROVE  \E f : Goes(f, T, a, step)
  <1> DEFINE Start(k, g) == Starts(g, k, T, a, step)
             S == {k \in Nat : \E g : Start(k, g)}
  <1>1. 0 \in S
    <2>1. Start(0, [i \in 0..0 |-> a])
      BY DEF Starts
    <2>2. QED
      BY <2>1
  <1>2. \A n \in S \cap Nat : n + 1 \in S
    <2> TAKE n \in S \cap Nat
    <2>1. PICK g : Start(n, g)
      OBVIOUS
    <2> DEFINE x == step[n + 1][g[n]]
               h == [i \in 0..(n + 1) |-> IF i = n + 1 THEN x ELSE g[i]]
    <2>2. x \in T /\ g \in [0..n -> T] /\ g[0] = a
      BY <2>1 DEF Starts
    <2>3. h \in [0..(n + 1) -> T] /\ h[0] = a
      BY <2>2
    <2>4. ASSUME NEW i \in 0..n PROVE h[i + 1] = step[i + 1][h[i]]
      <3>1. CASE i = n
        BY <2>1, <3>1 DEF Starts
      <3>2. CASE i < n
        BY <2>1, <3>2 DEF Starts
      <3>3. QED
        BY <3>1, <3>2
    <2>5. Start(n + 1, h)
      <3> HIDE DEF h
      <3>1. QED
        BY <2>3, <2>4 DEF Starts
    <2> HIDE DEF Start
    <2>6. \E e : Start(n + 1, e)
      BY <2>5
    <2>7. QED
      BY <2>6
  <1> HIDE DEF S
  <1>3. Nat \subseteq S
    BY <1>1, <1>2, SetInduction
  <1> DEFINE c(k) == CHOOSE g : Start(k, g)
             f == [k \in Nat |-> c(k)[k]]
  <1>4. \A k \in Nat : Start(k, c(k))
    BY <1>3, Zenon DEF S
  <1> HIDE DEF c
  <1>5. f \in [Nat -> T] /\ f[0] = a
    BY <1>4 DEF Starts
  <1>6. ASSUME NEW i \in Nat PROVE f[i + 1] = step[i + 1][f[i]]
    <2> DEFINE g == c(i)
               h == [j \in 0..i |-> c(i + 1)[j]]
    <2>1. Starts(g, i, T, a, step)
      BY <1>4
    <2>2. i + 1 \in Nat /\ i \in 0..((i + 1) - 1) /\ f[i + 1] = c(i + 1)[i + 1] /\ f[i] = g[i]
      OBVIOUS
    <2>3. Starts(c(i + 1), i + 1, T, a, step)
      BY <1>4, <2>2
    <2>4. Starts(h, i, T, a, step)
      BY <2>3 DEF Starts
    <2>5. c(i + 1)[i + 1] = step[i + 1][h[i]]
      BY <2>2, <2>3 DEF Starts
    <2> HIDE DEF g, h, f
    <2>6. g = h
      BY <2>1, <2>4, Unique
    <2>7. QED
      BY <2>2, <2>5, <2>6
  <1>7. QED
    BY <1>5, <1>6 DEF Goes

-----------------------------------------------------------------------------
(* Expressions: what every composition of them keeps.                      *)

(* The expressions of n + 1 levels are composed of those of n. *)
LEMMA ExpressionsGrow ==
  /\ Expressions[0] = {}
  /\ \A n \in Nat : Expressions[n + 1] = Composed(Expressions[n])
  <1> DEFINE T == SUBSET Seq(Lexemes)
             step == [i \in Nat |-> [E \in T |-> Composed(E)]]
  <1>1. \A E : Composed(E) \in T
    BY DEF Composed
  <1>2. step \in [Nat -> [T -> T]] /\ {} \in T
    BY <1>1
  <1>3. \A i \in Nat, E \in T : step[i][E] = Composed(E)
    OBVIOUS
  <1> HIDE DEF T, step
  <1>4. PICK f : Goes(f, T, {}, step)
    BY <1>2, Recursion
  <1>5. f \in [Nat -> T] /\ f[0] = {} /\ \A i \in Nat : f[i + 1] = Composed(f[i])
    BY <1>3, <1>4 DEF Goes
  <1>6. f = [n \in Nat |-> IF n = 0 THEN {} ELSE Composed(f[n - 1])]
    <2>1. ASSUME NEW n \in Nat PROVE f[n] = IF n = 0 THEN {} ELSE Composed(f[n - 1])
      <3>1. CASE n = 0
        BY <1>5, <3>1
      <3>2. CASE n # 0
        <4>1. n - 1 \in Nat /\ n = (n - 1) + 1
          BY <3>2
        <4>2. f[(n - 1) + 1] = Composed(f[n - 1])
          BY <1>5, <4>1
        <4>3. QED
          BY <3>2, <4>1, <4>2
      <3>3. QED
        BY <3>1, <3>2
    <2>2. QED
      BY <1>5, <2>1
  <1>7. Expressions = [n \in Nat |-> IF n = 0 THEN {} ELSE Composed(Expressions[n - 1])]
    BY <1>6, Zenon DEF Expressions
  <1>8. ASSUME NEW n \in Nat PROVE Expressions[n + 1] = Composed(Expressions[n])
    <2>1. n + 1 \in Nat /\ n + 1 # 0 /\ (n + 1) - 1 = n
      OBVIOUS
    <2>2. QED
      BY <1>7, <2>1
  <1>9. QED
    BY <1>7, <1>8

(* r is what s holds from place d + 1 on. *)
Part(r, s, d) ==
  /\ r \in Seq(Lexemes) /\ Len(r) \in Nat /\ d + Len(r) <= Len(s)
  /\ \A j \in 1..Len(r) : r[j] = s[d + j]

LEMMA SubSeqPart ==
  ASSUME NEW s \in Seq(Lexemes), NEW a \in Nat, NEW b \in Nat,
         1 <= a, b <= Len(s), a <= b + 1
  PROVE  Part(SubSeq(s, a, b), s, a - 1) /\ Len(SubSeq(s, a, b)) = b - a + 1
  <1> DEFINE r == SubSeq(s, a, b)
  <1>1. Len(s) \in Nat /\ \A i \in 1..Len(s) : s[i] \in Lexemes
    BY LenProperties, ElementOfSeq
  <1>2. \A i \in a..b : s[i] \in Lexemes
    BY <1>1
  <1>3. /\ r \in Seq(Lexemes) /\ Len(r) = IF a <= b THEN b - a + 1 ELSE 0
        /\ \A i \in 1..b - a + 1 : r[i] = s[a + i - 1]
    BY <1>2, SubSeqProperties
  <1> HIDE DEF r
  <1>4. Len(r) = b - a + 1
    BY <1>3
  <1>5. \A j \in 1..Len(r) : r[j] = s[(a - 1) + j]
    <2> TAKE j \in 1..Len(r)
    <2>1. a + j - 1 = (a - 1) + j
      BY <1>4
    <2>2. QED
      BY <1>3, <1>4, <2>1
  <1>6. (a - 1) + Len(r) <= Len(s)
    BY <1>1, <1>4
  <1>7. QED
    BY <1>1, <1>3, <1>4, <1>5, <1>6 DEF r, Part

(* The lexemes are told apart. *)
Opener  == Infix \cup Prefix \cup {"("}
Starter == Range(Names) \cup Prefix \cup {"("}

LEMMA Apart ==
  /\ \A x \in Range(Names) : x \notin Opener /\ x \notin {"(", ")", ";", "="}
  /\ ")" \notin Opener /\ ";" \notin Opener /\ ")" \notin Starter /\ ";" \notin Starter
  /\ \A x \in Infix : x \notin {"(", ")", ";"}
  /\ \A x \in Prefix : x \notin {"(", ")", ";", "="}
  /\ "(" # ")" /\ "(" # "="
  <1>1. Infix \subseteq {"*", "-", "<", "==", "&&", "||", "="}
    BY InputsAssumption
  <1>2. \A x \in Range(Names) :
          x \notin {"*", "-", "<", "==", "&&", "||", "=", "!", "(", ")", ";"}
    BY NamesAssumption
  <1>3. \A x \in Infix : x \notin {"(", ")", ";"}
    BY <1>1
  <1>4. \A x \in Prefix : x \notin {"(", ")", ";", "="}
    BY DEF Prefix
  <1>5. \A x \in Range(Names) : x \notin Opener /\ x \notin {"(", ")", ";", "="}
    BY <1>1, <1>2 DEF Opener, Prefix
  <1>6. ")" \notin Opener /\ ";" \notin Opener
    BY <1>3, <1>4 DEF Opener
  <1>7. ")" \notin Starter /\ ";" \notin Starter
    BY <1>4, <1>5 DEF Starter
  <1>8. QED
    BY <1>3, <1>4, <1>5, <1>6, <1>7

(* How many parentheses are open. *)
Turn(x) == IF x = "(" THEN 1 ELSE IF x = ")" THEN -1 ELSE 0

Count(s, c, k) == Cardinality({j \in 1..k : s[j] = c})

LEMMA CountStep ==
  ASSUME NEW s, NEW c, NEW k \in Nat
  PROVE  /\ Count(s, c, k) \in Nat
         /\ Count(s, c, k + 1) = Count(s, c, k) + (IF s[k + 1] = c THEN 1 ELSE 0)
  <1> DEFINE A == {j \in 1..k : s[j] = c}
             B == {j \in 1..k + 1 : s[j] = c}
  <1>1. A \subseteq 1..k /\ k + 1 \notin A
    OBVIOUS
  <1>2. IsFiniteSet(A)
    <2>1. IsFiniteSet(1..k)
      BY FS_Interval
    <2>2. QED
      BY <1>1, <2>1, FS_Subset
  <1>3. B = IF s[k + 1] = c THEN A \cup {k + 1} ELSE A
    <2>1. \A j : j \in 1..k + 1 <=> j \in 1..k \/ j = k + 1
      OBVIOUS
    <2>2. CASE s[k + 1] = c
      <3>1. \A j : j \in B <=> j \in A \cup {k + 1}
        BY <2>1, <2>2
      <3> HIDE DEF A, B
      <3>2. B = A \cup {k + 1}
        BY <3>1
      <3>3. QED
        BY <2>2, <3>2
    <2>3. CASE s[k + 1] # c
      <3>1. \A j : j \in B <=> j \in A
        BY <2>1, <2>3
      <3> HIDE DEF A, B
      <3>2. B = A
        BY <3>1
      <3>3. QED
        BY <2>3, <3>2
    <2>4. QED
      BY <2>2, <2>3
  <1> HIDE DEF A, B
  <1>4. Cardinality(A) \in Nat /\ Cardinality(A \cup {k + 1}) = Cardinality(A) + 1
    BY <1>1, <1>2, FS_AddElement, FS_CardinalityType
  <1>5. Cardinality(B) = Cardinality(A) + (IF s[k + 1] = c THEN 1 ELSE 0)
    BY <1>3, <1>4
  <1>6. QED
    BY <1>4, <1>5 DEF A, B, Count

LEMMA DepthSteps ==
  ASSUME NEW s
  PROVE  /\ Depth(s, 0) = 0
         /\ \A k \in Nat : /\ Depth(s, k) \in Int
                           /\ Depth(s, k + 1) = Depth(s, k) + Turn(s[k + 1])
  <1>1. Depth(s, 0) = 0
    <2>1. {j \in 1..0 : s[j] = "("} = {} /\ {j \in 1..0 : s[j] = ")"} = {}
      OBVIOUS
    <2>2. Cardinality({}) = 0
      BY FS_EmptySet
    <2>3. QED
      BY <2>1, <2>2 DEF Depth
  <1>2. ASSUME NEW k \in Nat
        PROVE  Depth(s, k) \in Int /\ Depth(s, k + 1) = Depth(s, k) + Turn(s[k + 1])
    <2> DEFINE a == Count(s, "(", k)
               b == Count(s, ")", k)
               c == Count(s, "(", k + 1)
               d == Count(s, ")", k + 1)
    <2>1. /\ a \in Nat /\ c = a + (IF s[k + 1] = "(" THEN 1 ELSE 0)
          /\ b \in Nat /\ d = b + (IF s[k + 1] = ")" THEN 1 ELSE 0)
      BY CountStep
    <2>2. Depth(s, k) = a - b /\ Depth(s, k + 1) = c - d
      BY DEF Depth, Count
    <2> HIDE DEF a, b, c, d
    <2>3. QED
      BY <2>1, <2>2 DEF Turn
  <1>3. QED
    BY <1>1, <1>2

LEMMA DepthShift ==
  ASSUME NEW r, NEW s, NEW d \in Nat, NEW m \in Nat, \A j \in 1..m : r[j] = s[d + j]
  PROVE  \A j \in 0..m : Depth(s, d + j) = Depth(s, d) + Depth(r, j)
  <1> DEFINE S == {j \in Nat : j <= m => Depth(s, d + j) = Depth(s, d) + Depth(r, j)}
  <1>1. 0 \in S
    <2>1. Depth(r, 0) = 0
      BY DepthSteps
    <2>2. Depth(s, d) \in Int
      BY DepthSteps
    <2>3. d + 0 = d
      OBVIOUS
    <2>4. QED
      BY <2>1, <2>2, <2>3
  <1>2. ASSUME NEW j \in S \cap Nat PROVE j + 1 \in S
    <2> SUFFICES ASSUME j + 1 <= m
                 PROVE  Depth(s, d + (j + 1)) = Depth(s, d) + Depth(r, j + 1)
      OBVIOUS
    <2>1. /\ j \in Nat /\ j + 1 \in 1..m /\ d + j \in Nat /\ d + (j + 1) = (d + j) + 1
          /\ Depth(s, d + j) = Depth(s, d) + Depth(r, j)
      OBVIOUS
    <2>2. r[j + 1] = s[(d + j) + 1]
      BY <2>1
    <2>3. /\ Depth(s, (d + j) + 1) = Depth(s, d + j) + Turn(s[(d + j) + 1])
          /\ Depth(r, j + 1) = Depth(r, j) + Turn(r[j + 1])
          /\ Depth(r, j) \in Int /\ Depth(s, d) \in Int
      BY <2>1, DepthSteps
    <2>4. Turn(r[j + 1]) \in Int
      BY DEF Turn
    <2>5. QED
      BY <2>1, <2>2, <2>3, <2>4
  <1> HIDE DEF S
  <1>3. Nat \subseteq S
    BY <1>1, <1>2, SetInduction
  <1>4. QED
    BY <1>3 DEF S

LEMMA DepthPart ==
  ASSUME NEW r, NEW s, NEW d \in Nat, Part(r, s, d)
  PROVE  Depth(s, d + Len(r)) = Depth(s, d) + Depth(r, Len(r))
  <1> DEFINE m == Len(r)
  <1>1. m \in Nat
    BY DEF Part
  <1>2. \A j \in 1..m : r[j] = s[d + j]
    BY DEF Part
  <1> HIDE DEF m
  <1>3. m \in 0..m
    BY <1>1
  <1>4. \A j \in 0..m : Depth(s, d + j) = Depth(s, d) + Depth(r, j)
    BY <1>1, <1>2, DepthShift
  <1>5. QED
    BY <1>3, <1>4 DEF m

(* A name in parentheses, from place b to place e. *)
LvAt(s, b, e) ==
  \E n \in Nat : /\ e = b + 2 * n /\ s[b + n] \in Range(Names)
                 /\ \A i \in 1..n : s[b + i - 1] = "(" /\ s[e + 1 - i] = ")"

(* What an assignment at place p assigns to. *)
Legal(s, p) ==
  \E b \in 1..p - 1 : LvAt(s, b, p - 1) /\ (b = 1 \/ s[b - 1] \in {"(", "="})

LEMMA LValueAt ==
  ASSUME NEW s \in Seq(Lexemes), IsLValue(s)
  PROVE  LvAt(s, 1, Len(s)) /\ 1 <= Len(s)
  <1>1. PICK n \in 0..Len(s) :
          /\ Len(s) = 2 * n + 1 /\ s[n + 1] \in Range(Names)
          /\ \A i \in 1..n : s[i] = "(" /\ s[Len(s) + 1 - i] = ")"
    BY DEF IsLValue
  <1>2. n \in Nat /\ Len(s) = 1 + 2 * n /\ s[1 + n] \in Range(Names) /\ 1 <= Len(s)
    BY <1>1
  <1>3. \A i \in 1..n : s[1 + i - 1] = "(" /\ s[Len(s) + 1 - i] = ")"
    <2> TAKE i \in 1..n
    <2>1. 1 + i - 1 = i
      OBVIOUS
    <2>2. QED
      BY <1>1, <2>1
  <1>4. QED
    BY <1>2, <1>3 DEF LvAt

LEMMA LvAtEnds ==
  ASSUME NEW s, NEW b \in Nat, NEW e \in Nat, LvAt(s, b, e)
  PROVE  b <= e /\ s[e] \in Range(Names) \cup {")"} /\ s[b] \in Range(Names) \cup {"("}
  <1>1. PICK n \in Nat :
          /\ e = b + 2 * n /\ s[b + n] \in Range(Names)
          /\ \A i \in 1..n : s[b + i - 1] = "(" /\ s[e + 1 - i] = ")"
    BY DEF LvAt
  <1>2. CASE n = 0
    <2>1. e = b /\ b + n = b
      BY <1>1, <1>2
    <2>2. QED
      BY <1>1, <2>1
  <1>3. CASE n # 0
    <2>1. 1 \in 1..n /\ b + 1 - 1 = b /\ e + 1 - 1 = e /\ b <= e
      BY <1>1, <1>3
    <2>2. s[b + 1 - 1] = "(" /\ s[e + 1 - 1] = ")"
      BY <1>1, <2>1
    <2>3. QED
      BY <2>1, <2>2
  <1>4. QED
    BY <1>2, <1>3

LEMMA LvAtShift ==
  ASSUME NEW r, NEW s, NEW d \in Nat, NEW m \in Nat, \A j \in 1..m : r[j] = s[d + j],
         NEW b \in 1..m, NEW e \in 1..m, LvAt(r, b, e)
  PROVE  LvAt(s, d + b, d + e)
  <1>1. PICK n \in Nat :
          /\ e = b + 2 * n /\ r[b + n] \in Range(Names)
          /\ \A i \in 1..n : r[b + i - 1] = "(" /\ r[e + 1 - i] = ")"
    BY DEF LvAt
  <1>2. d + e = (d + b) + 2 * n
    BY <1>1
  <1>3. s[(d + b) + n] \in Range(Names)
    <2>1. b + n \in 1..m /\ d + (b + n) = (d + b) + n
      BY <1>1
    <2>2. QED
      BY <1>1, <2>1
  <1>4. ASSUME NEW i \in 1..n
        PROVE  s[(d + b) + i - 1] = "(" /\ s[(d + e) + 1 - i] = ")"
    <2>1. /\ b + i - 1 \in 1..m /\ d + (b + i - 1) = (d + b) + i - 1
          /\ e + 1 - i \in 1..m /\ d + (e + 1 - i) = (d + e) + 1 - i
      BY <1>1
    <2>2. r[b + i - 1] = "(" /\ r[e + 1 - i] = ")"
      BY <1>1
    <2>3. r[b + i - 1] = s[d + (b + i - 1)] /\ r[e + 1 - i] = s[d + (e + 1 - i)]
      BY <2>1
    <2>4. QED
      BY <2>1, <2>2, <2>3
  <1>5. QED
    BY <1>2, <1>3, <1>4 DEF LvAt

(* It leaves no parenthesis open. *)
LEMMA LvAtDepth ==
  ASSUME NEW s, NEW b \in Nat, NEW e \in Nat, b # 0, LvAt(s, b, e)
  PROVE  Depth(s, e) = Depth(s, b - 1)
  <1>1. PICK n \in Nat :
          /\ e = b + 2 * n /\ s[b + n] \in Range(Names)
          /\ \A i \in 1..n : s[b + i - 1] = "(" /\ s[e + 1 - i] = ")"
    BY DEF LvAt
  <1> DEFINE a == b - 1
             D == Depth(s, a)
             S == {i \in Nat : i <= n => Depth(s, a + i) = D + i}
             R == {i \in Nat : i <= n => Depth(s, e - n + i) = D + n - i}
  <1>2. a \in Nat /\ b = a + 1 /\ D \in Int
    <2>1. a \in Nat /\ b = a + 1
      OBVIOUS
    <2>2. QED
      BY <2>1, DepthSteps
  <1> HIDE DEF a, D
  <1>3. Nat \subseteq S
    <2>1. 0 \in S
      <3>1. a + 0 = a /\ D + 0 = D
        BY <1>2
      <3>2. QED
        BY <3>1 DEF D
    <2>2. ASSUME NEW i \in S \cap Nat PROVE i + 1 \in S
      <3> SUFFICES ASSUME i + 1 <= n PROVE Depth(s, a + (i + 1)) = D + (i + 1)
        OBVIOUS
      <3>1. /\ i \in Nat /\ i + 1 \in 1..n /\ Depth(s, a + i) = D + i /\ a + i \in Nat
            /\ a + (i + 1) = (a + i) + 1 /\ b + (i + 1) - 1 = (a + i) + 1
        BY <1>2
      <3>2. s[(a + i) + 1] = "("
        BY <1>1, <3>1
      <3>3. Depth(s, (a + i) + 1) = Depth(s, a + i) + 1
        BY <3>1, <3>2, DepthSteps DEF Turn
      <3>4. QED
        BY <1>2, <3>1, <3>3
    <2> HIDE DEF S
    <2>3. QED
      BY <2>1, <2>2, SetInduction
  <1>4. Nat \subseteq R
    <2>1. 0 \in R
      <3>1. Depth(s, a + n) = D + n
        BY <1>3
      <3>2. a + n \in Nat /\ b + n = (a + n) + 1 /\ e - n + 0 = (a + n) + 1
        BY <1>1, <1>2
      <3>3. Turn(s[(a + n) + 1]) = 0
        BY <1>1, <3>2, Apart DEF Turn
      <3>4. Depth(s, (a + n) + 1) = Depth(s, a + n) + 0
        BY <3>2, <3>3, DepthSteps
      <3>5. QED
        BY <1>2, <3>1, <3>2, <3>4
    <2>2. ASSUME NEW i \in R \cap Nat PROVE i + 1 \in R
      <3> SUFFICES ASSUME i + 1 <= n PROVE Depth(s, e - n + (i + 1)) = D + n - (i + 1)
        OBVIOUS
      <3>1. /\ i \in Nat /\ Depth(s, e - n + i) = D + n - i /\ e - n + i \in Nat
            /\ e - n + (i + 1) = (e - n + i) + 1
            /\ n - i \in 1..n /\ e + 1 - (n - i) = (e - n + i) + 1
        BY <1>1, <1>2
      <3>2. s[(e - n + i) + 1] = ")"
        BY <1>1, <3>1
      <3>3. Turn(s[(e - n + i) + 1]) = -1
        BY <3>2 DEF Turn
      <3>4. Depth(s, (e - n + i) + 1) = Depth(s, e - n + i) + (-1)
        BY <3>1, <3>3, DepthSteps
      <3>5. QED
        BY <1>2, <3>1, <3>4
    <2> HIDE DEF R
    <2>3. QED
      BY <2>1, <2>2, SetInduction
  <1>5. n \in R /\ e - n + n = e /\ D + n - n = D
    BY <1>1, <1>2, <1>4
  <1>6. QED
    BY <1>5 DEF a, D

(* An operator is followed by the start of an operand; all parentheses are *)
(* closed; every assignment is to a name.                                  *)
Followed(s) ==
  /\ 1 <= Len(s) /\ s[1] \in Starter
  /\ \A i \in 1..Len(s) : /\ s[i] # ";"
                          /\ s[i] \in Opener => i < Len(s) /\ s[i + 1] \in Starter
Balanced(s) == Depth(s, Len(s)) = 0
Assigned(s) == \A p \in 1..Len(s) : s[p] = "=" => Legal(s, p)
Sound(s)    == s \in Seq(Lexemes) /\ Followed(s) /\ Balanced(s) /\ Assigned(s)

LEMMA LegalShift ==
  ASSUME NEW r, NEW s, NEW d \in Nat, NEW m \in Nat, \A j \in 1..m : r[j] = s[d + j],
         NEW p \in 1..m, Legal(r, p)
  PROVE  \/ Legal(s, d + p)
         \/ d # 0 /\ p - 1 \in 1..m /\ LvAt(s, d + 1, (d + p) - 1) /\ s[d] \notin {"(", "="}
  <1>1. PICK b \in 1..p - 1 : LvAt(r, b, p - 1) /\ (b = 1 \/ r[b - 1] \in {"(", "="})
    BY DEF Legal
  <1>2. b \in 1..m /\ p - 1 \in 1..m /\ d + (p - 1) = (d + p) - 1
    OBVIOUS
  <1>3. LvAt(s, d + b, (d + p) - 1)
    BY <1>2, <1>1, LvAtShift
  <1>4. d + b \in 1..(d + p) - 1
    OBVIOUS
  <1>5. CASE b # 1
    <2>1. b - 1 \in 1..m /\ d + (b - 1) = (d + b) - 1
      BY <1>5
    <2>2. s[(d + b) - 1] \in {"(", "="}
      BY <1>1, <1>5, <2>1
    <2>3. QED
      BY <1>3, <1>4, <2>2 DEF Legal
  <1>6. CASE b = 1
    <2>1. CASE d = 0
      <3>1. d + b = 1
        BY <1>6, <2>1
      <3>2. QED
        BY <1>3, <1>4, <3>1 DEF Legal
    <2>2. CASE d # 0 /\ s[d] \in {"(", "="}
      <3>1. (d + b) - 1 = d
        BY <1>6
      <3>2. QED
        BY <1>3, <1>4, <2>2, <3>1 DEF Legal
    <2>3. CASE d # 0 /\ s[d] \notin {"(", "="}
      BY <1>2, <1>3, <1>6, <2>3
    <2>4. QED
      BY <2>1, <2>2, <2>3
  <1>7. QED
    BY <1>5, <1>6

(* Only an assignment is as loose as one. *)
LEMMA Loosenesses ==
  \A x \in Infix : Looseness(x) \in 1..11 /\ (Looseness(x) = 11 <=> x = "=")
  <1> TAKE x \in Infix
  <1>1. x \in {"*", "-", "<", "==", "&&", "||", "="}
    BY InputsAssumption
  <1>2. QED
    BY <1>1 DEF Looseness, Precedence, Compare

(* An assignment outside parentheses after a name is a place to split at. *)
LEMMA SplitThere ==
  ASSUME NEW s \in Seq(Lexemes), NEW d \in Nat, NEW p \in 1..Len(s), s[p] = "=",
         Depth(s, d) = 0, d + 1 <= p - 1, LvAt(s, d + 1, p - 1)
  PROVE  p \in Splits(s) /\ "=" \in Infix
  <1>1. Len(s) \in Nat /\ s[p] \in Lexemes
    BY LenProperties, ElementOfSeq
  <1>2. "=" \in Infix
    BY <1>1, Apart DEF Lexemes
  <1>3. p \in 2..Len(s) /\ p - 1 \in Nat /\ d + 1 \in Nat /\ (d + 1) - 1 = d /\ p = (p - 1) + 1
        /\ d + 1 # 0
    BY <1>1
  <1>4. Depth(s, p - 1) = 0 /\ s[p - 1] \in Range(Names) \cup {")"}
    BY <1>3, LvAtDepth, LvAtEnds
  <1>5. Depth(s, p) = 0
    <2>1. Depth(s, (p - 1) + 1) = Depth(s, p - 1) + Turn(s[(p - 1) + 1])
      BY <1>3, DepthSteps
    <2>2. Turn(s[p]) = 0
      BY DEF Turn
    <2>3. QED
      BY <1>3, <1>4, <2>1, <2>2
  <1>6. QED
    BY <1>2, <1>3, <1>4, <1>5 DEF Splits

(* An operator between two expressions. *)
LEMMA SplitSound ==
  ASSUME NEW s \in Seq(Lexemes), NEW i \in 2..Len(s), s[i] \in Infix, Depth(s, i) = 0,
         \A j \in Splits(s) : Looseness(s[j]) <= Looseness(s[i]),
         NEW l, Part(l, s, 0), Len(l) = i - 1, Sound(l), s[i] = "=" => IsLValue(l),
         NEW r, Part(r, s, i), Len(r) = Len(s) - i, Sound(r)
  PROVE  Sound(s)
  <1> DEFINE n == Len(s)
             a == Len(l)
             c == Len(r)
  <1>1. n \in Nat /\ i \in 2..n /\ a \in Nat /\ c \in Nat /\ i + c = n /\ a = i - 1
    BY LenProperties
  <1>2. /\ \A j \in 1..a : l[j] = s[j]
        /\ \A j \in 1..c : r[j] = s[i + j]
    <2>1. \A j \in 1..a : 0 + j = j
      BY <1>1
    <2>2. QED
      BY <2>1 DEF Part
  <1>0. \A j \in 1..a : l[j] = s[0 + j]
    BY DEF Part
  <1>00. \A j \in 1..c : r[j] = s[i + j]
    BY DEF Part
  <1>3. /\ 1 <= a /\ l[1] \in Starter
        /\ \A j \in 1..a : l[j] # ";" /\ (l[j] \in Opener => j < a /\ l[j + 1] \in Starter)
    BY DEF Sound, Followed
  <1>4. /\ 1 <= c /\ r[1] \in Starter
        /\ \A j \in 1..c : r[j] # ";" /\ (r[j] \in Opener => j < c /\ r[j + 1] \in Starter)
    BY DEF Sound, Followed
  <1>q. 1 <= a /\ 1 <= c
    BY <1>3, <1>4
  <1>p. /\ \A p \in 1..a : l[p] = "=" => Legal(l, p)
        /\ \A p \in 1..c : r[p] = "=" => Legal(r, p)
        /\ Depth(r, c) = 0 /\ (s[i] = "=" => LvAt(l, 1, a))
    BY LValueAt DEF Sound, Assigned, Balanced
  <1>5. (1 <= n /\ s[1] \in Starter)
        /\ \A k \in 1..n : /\ s[k] # ";"
                           /\ s[k] \in Opener => k < n /\ s[k + 1] \in Starter
    <2> HIDE DEF n, a, c
    <2>1. 1 <= n /\ s[1] \in Starter
      <3>1. 1 <= n /\ 1 \in 1..a
        BY <1>1, <1>q
      <3>2. l[1] = s[1]
        BY <1>2, <3>1
      <3>3. QED
        BY <1>3, <3>1, <3>2
    <2>2. ASSUME NEW k \in 1..n
          PROVE  s[k] # ";" /\ (s[k] \in Opener => k < n /\ s[k + 1] \in Starter)
      <3>1. CASE k < i
        <4>1. k \in 1..a /\ l[k] = s[k]
          BY <1>1, <1>2, <3>1
        <4>2. s[k] # ";" /\ (s[k] \in Opener => k < a /\ l[k + 1] \in Starter)
          BY <1>3, <4>1
        <4>3. k < a => k + 1 \in 1..a /\ k < n
          BY <1>1
        <4>4. QED
          BY <1>2, <4>2, <4>3
      <3>2. CASE k = i
        <4>1. s[k] # ";"
          BY <3>2, Apart
        <4>2. 1 \in 1..c /\ k < n /\ i + 1 = k + 1
          BY <1>1, <1>q, <3>2
        <4>3. s[k + 1] \in Starter
          BY <1>2, <1>4, <4>2
        <4>4. QED
          BY <4>1, <4>2, <4>3
      <3>3. CASE i < k
        <4> DEFINE j == k - i
        <4>1. j \in 1..c /\ i + j = k
          BY <1>1, <3>3
        <4> HIDE DEF j
        <4>2. r[j] = s[k]
          BY <1>2, <4>1
        <4>3. s[k] # ";" /\ (s[k] \in Opener => j < c /\ r[j + 1] \in Starter)
          BY <1>4, <4>1, <4>2
        <4>4. j < c => j + 1 \in 1..c /\ k < n /\ i + (j + 1) = k + 1
          BY <1>1, <4>1
        <4>5. QED
          BY <1>2, <4>3, <4>4
      <3>4. k < i \/ k = i \/ i < k
        BY <1>1
      <3>5. QED
        BY <3>1, <3>2, <3>3, <3>4, Zenon
    <2>3. QED
      BY <2>1, <2>2
  <1>6. Depth(s, i + c) = Depth(s, i) + Depth(r, c)
    <2>1. i \in Nat
      BY <1>1
    <2>2. QED
      BY <2>1, DepthPart
  <1>7. Depth(s, n) = 0
    <2> HIDE DEF n, a, c
    <2>2. Depth(s, i + c) = 0 + 0
      BY <1>1, <1>6, <1>p
    <2>3. QED
      BY <1>1, <2>2
  <1>8. ASSUME NEW p \in 1..n, s[p] = "=" PROVE Legal(s, p)
    <2>s. \A d \in Nat : d + 1 <= p - 1 /\ Depth(s, d) = 0 /\ LvAt(s, d + 1, p - 1)
                           => p \in Splits(s) /\ "=" \in Infix
      BY <1>8, SplitThere
    <2> HIDE DEF n, a, c
    <2>1. CASE p < i
      <3>0. p \in 1..a
        BY <1>1, <2>1
      <3>1. p \in 1..a /\ l[p] = "="
        BY <1>2, <1>8, <3>0
      <3>2. Legal(l, p)
        BY <1>p, <3>1
      <3>3. 0 \in Nat
        OBVIOUS
      <3>4. Legal(s, 0 + p)
        BY <1>0, <1>1, <3>0, <3>2, <3>3, LegalShift
      <3>5. 0 + p = p
        OBVIOUS
      <3>6. QED
        BY <3>4, <3>5
    <2>2. CASE p = i
      <3>1. LvAt(l, 1, a)
        BY <1>8, <1>p, <2>2
      <3>2. 0 \in Nat
        OBVIOUS
      <3>3. 1 \in 1..a /\ a \in 1..a /\ 0 + 1 = 1 /\ 0 + a = p - 1
        BY <1>1, <1>q, <2>2
      <3>4. LvAt(s, 0 + 1, 0 + a)
        BY <1>0, <1>1, <3>1, <3>2, <3>3, LvAtShift
      <3>5. 1 \in 1..p - 1
        BY <1>1, <2>2
      <3>6. QED
        BY <3>3, <3>4, <3>5 DEF Legal
    <2>3. CASE i < p
      <3> DEFINE q == p - i
      <3>1. q \in 1..c /\ i + q = p
        BY <1>1, <2>3
      <3> HIDE DEF q
      <3>2. Legal(r, q)
        <4>1. r[q] = "="
          BY <1>2, <1>8, <3>1
        <4>2. QED
          BY <1>p, <3>1, <4>1
      <3>3. SUFFICES ASSUME q - 1 \in 1..c, LvAt(s, i + 1, (i + q) - 1),
                            s[i] \notin {"(", "="}
                     PROVE  FALSE
        <4>1. i \in Nat
          BY <1>1
        <4>2. QED
          BY <1>00, <1>1, <3>1, <3>2, <4>1, LegalShift
      <3>4. i + 1 <= p - 1 /\ LvAt(s, i + 1, p - 1)
        BY <1>1, <3>1, <3>3
      <3>5. p \in Splits(s) /\ "=" \in Infix
        <4>1. i \in Nat
          BY <1>1
        <4>2. QED
          BY <3>4, <4>1, <2>s
      <3>6. Looseness("=") = 11 /\ Looseness(s[i]) \in 1..11 /\ Looseness(s[i]) # 11
        BY <3>3, <3>5, Loosenesses
      <3>7. Looseness(s[p]) <= Looseness(s[i])
        BY <3>5
      <3>9. s[p] = "="
        BY <1>8
      <3>8. QED
        BY <3>6, <3>7, <3>9
    <2>4. QED
      BY <1>1, <2>1, <2>2, <2>3
  <1>9. QED
    <2>1. Followed(s)
      BY <1>5, Zenon DEF Followed
    <2>2. Balanced(s) /\ Assigned(s)
      BY <1>7, <1>8 DEF Balanced, Assigned
    <2>3. QED
      BY <2>1, <2>2 DEF Sound

(* An operator before an expression, and a parenthesis around one. *)
LEMMA AroundSound ==
  ASSUME NEW s \in Seq(Lexemes), NEW r, Part(r, s, 1), Sound(r), NEW e \in {0, 1},
         Len(s) = Len(r) + 1 + e,
         \/ e = 0 /\ s[1] \in Prefix /\ Splits(s) = {}
         \/ e = 1 /\ s[1] = "(" /\ s[Len(s)] = ")"
  PROVE  Sound(s)
  <1> DEFINE n == Len(s)
             c == Len(r)
  <1>0. n \in Nat /\ c \in Nat /\ e \in Nat /\ n = c + 1 + e
    BY LenProperties DEF Part
  <1>1. \A j \in 1..c : r[j] = s[1 + j]
    BY DEF Part
  <1>2. /\ 1 <= c /\ r[1] \in Starter
        /\ \A j \in 1..c : r[j] # ";" /\ (r[j] \in Opener => j < c /\ r[j + 1] \in Starter)
    BY DEF Sound, Followed
  <1>q. 1 <= c /\ 1 <= n
    <2>1. 1 <= c
      BY <1>2
    <2>2. QED
      BY <1>0, <2>1
  <1>p. (\A p \in 1..c : r[p] = "=" => Legal(r, p)) /\ Depth(r, c) = 0
    BY DEF Sound, Assigned, Balanced
  <1>3. s[1] \in Opener /\ s[1] \in Starter /\ s[1] # ";" /\ s[1] # "="
    BY Apart DEF Opener, Starter
  <1>4. e = 1 => s[n] = ")"
    OBVIOUS
  <1>4a. ")" \notin Opener /\ ")" # ";" /\ ")" # "="
    BY Apart
  <1>e. \/ e = 0 /\ s[1] \in Prefix /\ Splits(s) = {}
        \/ e = 1 /\ s[1] = "("
    OBVIOUS
  <1>5. (1 <= n /\ s[1] \in Starter)
        /\ \A k \in 1..n : /\ s[k] # ";"
                           /\ s[k] \in Opener => k < n /\ s[k + 1] \in Starter
    <2> HIDE DEF n, c
    <2>2. ASSUME NEW k \in 1..n
          PROVE  s[k] # ";" /\ (s[k] \in Opener => k < n /\ s[k + 1] \in Starter)
      <3>1. CASE k = 1
        <4>1. 1 \in 1..c /\ k < n /\ 1 + 1 = k + 1
          BY <1>0, <1>q, <3>1
        <4>2. s[k + 1] \in Starter
          BY <1>1, <1>2, <4>1
        <4>3. QED
          BY <1>3, <3>1, <4>1, <4>2
      <3>2. CASE k # 1 /\ k <= c + 1
        <4> DEFINE j == k - 1
        <4>1. j \in 1..c /\ 1 + j = k
          BY <1>0, <3>2
        <4> HIDE DEF j
        <4>2. r[j] = s[k]
          BY <1>1, <4>1
        <4>3. s[k] # ";" /\ (s[k] \in Opener => j < c /\ r[j + 1] \in Starter)
          BY <1>2, <4>1, <4>2
        <4>4. j < c => j + 1 \in 1..c /\ k < n /\ 1 + (j + 1) = k + 1
          BY <1>0, <4>1
        <4>5. QED
          BY <1>1, <4>3, <4>4
      <3>3. CASE k > c + 1
        <4>1. e = 1 /\ k = n
          BY <1>0, <3>3
        <4>2. s[k] = ")"
          BY <1>4, <4>1
        <4>3. QED
          BY <1>4a, <4>2
      <3>4. k = 1 \/ (k # 1 /\ k <= c + 1) \/ k > c + 1
        BY <1>0
      <3>5. QED
        BY <3>1, <3>2, <3>3, <3>4, Zenon
    <2>3. QED
      BY <1>3, <1>q, <2>2, Zenon
  <1>6. Depth(s, 1 + c) = Depth(s, 1) + Depth(r, c) /\ Depth(s, 1) = e
    <2>1. 1 \in Nat
      OBVIOUS
    <2>2. Depth(s, 1 + c) = Depth(s, 1) + Depth(r, c)
      BY <2>1, DepthPart
    <2>3. Turn(s[1]) = e
      BY <1>e, Apart DEF Turn
    <2>4. Depth(s, 0 + 1) = Depth(s, 0) + Turn(s[0 + 1]) /\ Depth(s, 0) = 0
      BY DepthSteps
    <2>5. 0 + 1 = 1
      OBVIOUS
    <2>6. QED
      BY <1>0, <2>2, <2>3, <2>4, <2>5
  <1>7. Depth(s, n) = 0
    <2> HIDE DEF n, c
    <2>1. c \in 0..c /\ 1 + c \in Nat
      BY <1>0
    <2>2. Depth(s, 1 + c) = e
      BY <1>0, <1>6, <1>p, <2>1
    <2>3. CASE e = 0
      <3>1. n = 1 + c
        BY <1>0, <2>3
      <3>2. QED
        BY <2>2, <2>3, <3>1
    <2>4. CASE e = 1
      <3>1. n = (1 + c) + 1
        BY <1>0, <2>4
      <3>2. Depth(s, (1 + c) + 1) = Depth(s, 1 + c) + Turn(s[(1 + c) + 1])
        BY <2>1, DepthSteps
      <3>3. Turn(s[(1 + c) + 1]) = -1
        BY <1>4, <2>4, <3>1 DEF Turn
      <3>4. QED
        BY <2>2, <2>4, <3>1, <3>2, <3>3
    <2>5. QED
      BY <2>3, <2>4
  <1>8. ASSUME NEW p \in 1..n, s[p] = "=" PROVE Legal(s, p)
    <2>s. \A d \in Nat : d + 1 <= p - 1 /\ Depth(s, d) = 0 /\ LvAt(s, d + 1, p - 1)
                           => p \in Splits(s)
      BY <1>8, SplitThere
    <2> HIDE DEF n, c
    <2> DEFINE q == p - 1
    <2>1. p # 1 /\ ~(e = 1 /\ p = n)
      BY <1>3, <1>4, <1>4a, <1>8
    <2>2. q \in 1..c /\ 1 + q = p
      BY <1>0, <2>1
    <2> HIDE DEF q
    <2>3. Legal(r, q)
      <3>1. r[q] = "="
        BY <1>1, <1>8, <2>2
      <3>2. QED
        BY <1>p, <2>2, <3>1
    <2>4. \/ Legal(s, 1 + q)
          \/ q - 1 \in 1..c /\ LvAt(s, 1 + 1, (1 + q) - 1) /\ s[1] \notin {"(", "="}
      <3>1. 1 \in Nat /\ c \in Nat /\ q \in 1..c
        BY <1>0, <2>2
      <3>2. QED
        BY <1>1, <2>3, <3>1, LegalShift
    <2>5. SUFFICES ASSUME q - 1 \in 1..c, LvAt(s, 1 + 1, p - 1), s[1] # "("
                   PROVE  FALSE
      BY <2>2, <2>4
    <2>6. e = 0 /\ Splits(s) = {} /\ Depth(s, 1) = 0
      BY <1>e, <1>6, <2>5
    <2>7. 1 + 1 <= p - 1 /\ 1 \in Nat
      BY <1>0, <2>2, <2>5
    <2>8. p \in Splits(s)
      BY <2>s, <2>5, <2>6, <2>7
    <2>9. QED
      BY <2>6, <2>8
  <1>9. QED
    <2>1. Followed(s)
      BY <1>5, Zenon DEF Followed
    <2>2. Balanced(s) /\ Assigned(s)
      BY <1>7, <1>8 DEF Balanced, Assigned
    <2>3. QED
      BY <2>1, <2>2 DEF Sound

LEMMA NameSound ==
  ASSUME NEW s \in Seq(Lexemes), Len(s) = 1, s[1] \in Range(Names)
  PROVE  Sound(s)
  <1>1. s[1] \notin Opener /\ s[1] \notin {"(", ")", ";", "="} /\ s[1] \in Starter
    BY Apart DEF Starter
  <1>2. \A i \in 1..Len(s) : i = 1
    OBVIOUS
  <1>3. Followed(s)
    <2>1. 1 <= Len(s)
      OBVIOUS
    <2>2. \A i \in 1..Len(s) : s[i] # ";" /\ s[i] \notin Opener
      BY <1>1, <1>2
    <2>3. QED
      BY <1>1, <2>1, <2>2, Zenon DEF Followed
  <1>4. Assigned(s)
    BY <1>1, <1>2 DEF Assigned
  <1>5. Balanced(s)
    <2>1. Depth(s, 0 + 1) = Depth(s, 0) + Turn(s[0 + 1]) /\ Depth(s, 0) = 0
      BY DepthSteps
    <2>2. Turn(s[1]) = 0
      BY <1>1 DEF Turn
    <2>3. 0 + 1 = 1
      OBVIOUS
    <2>4. QED
      BY <2>1, <2>2, <2>3 DEF Balanced
  <1>6. QED
    BY <1>3, <1>4, <1>5 DEF Sound

LEMMA ComposedSound ==
  ASSUME NEW E, \A r \in E : Sound(r), NEW s \in Composed(E)
  PROVE  Sound(s)
  <1>1. s \in Seq(Lexemes) /\ Len(s) \in Nat
    BY LenProperties DEF Composed
  <1>2. CASE \E i \in MainCut(s) : /\ s[i] = "=" => IsLValue(Before(s, i))
                                   /\ Before(s, i) \in E /\ After(s, i) \in E
    <2>1. PICK i \in MainCut(s) : /\ s[i] = "=" => IsLValue(Before(s, i))
                                  /\ Before(s, i) \in E /\ After(s, i) \in E
      BY <1>2
    <2>2. i \in Splits(s) /\ \A j \in Splits(s) : Looseness(s[j]) <= Looseness(s[i])
      BY DEF MainCut, Cuts
    <2>3. i \in 2..Len(s) /\ s[i] \in Infix /\ Depth(s, i) = 0
      BY <2>2 DEF Splits
    <2>4. Sound(Before(s, i)) /\ Sound(After(s, i))
      BY <2>1
    <2>5. Part(Before(s, i), s, 0) /\ Len(Before(s, i)) = i - 1
      <3>1. /\ 1 \in Nat /\ i - 1 \in Nat /\ 1 <= 1 /\ i - 1 <= Len(s) /\ 1 <= (i - 1) + 1
            /\ 1 - 1 = 0 /\ (i - 1) - 1 + 1 = i - 1
        BY <1>1, <2>3
      <3>2. Part(SubSeq(s, 1, i - 1), s, 1 - 1) /\ Len(SubSeq(s, 1, i - 1)) = (i - 1) - 1 + 1
        BY <1>1, <3>1, SubSeqPart
      <3>3. QED
        BY <3>1, <3>2 DEF Before
    <2>6. Part(After(s, i), s, i) /\ Len(After(s, i)) = Len(s) - i
      <3>1. /\ i + 1 \in Nat /\ 1 <= i + 1 /\ Len(s) <= Len(s) /\ i + 1 <= Len(s) + 1
            /\ (i + 1) - 1 = i /\ Len(s) - (i + 1) + 1 = Len(s) - i
        BY <1>1, <2>3
      <3>2. /\ Part(SubSeq(s, i + 1, Len(s)), s, (i + 1) - 1)
            /\ Len(SubSeq(s, i + 1, Len(s))) = Len(s) - (i + 1) + 1
        BY <1>1, <3>1, SubSeqPart
      <3>3. QED
        BY <3>1, <3>2 DEF After
    <2>7. QED
      BY <1>1, <2>1, <2>2, <2>3, <2>4, <2>5, <2>6, SplitSound
  <1>3. CASE Splits(s) = {} /\ Len(s) = 1 /\ s[1] \in Range(Names)
    BY <1>1, <1>3, NameSound
  <1>4. CASE Splits(s) = {} /\ Len(s) > 1 /\ s[1] \in Prefix /\ Tail(s) \in E
    <2>1. Tail(s) = SubSeq(s, 2, Len(s))
      BY <1>1, <1>4
    <2>2. /\ 2 \in Nat /\ 1 <= 2 /\ Len(s) <= Len(s) /\ 2 <= Len(s) + 1
          /\ 2 - 1 = 1 /\ Len(s) - 2 + 1 = Len(s) - 1
      BY <1>1, <1>4
    <2>3. /\ Part(SubSeq(s, 2, Len(s)), s, 2 - 1)
          /\ Len(SubSeq(s, 2, Len(s))) = Len(s) - 2 + 1
      BY <1>1, <2>2, SubSeqPart
    <2>4. Part(Tail(s), s, 1) /\ Len(s) = Len(Tail(s)) + 1 + 0 /\ 0 \in {0, 1}
      <3> DEFINE r == SubSeq(s, 2, Len(s))
      <3>1. Part(r, s, 1) /\ Len(r) = Len(s) - 1
        BY <2>2, <2>3
      <3> HIDE DEF r
      <3>2. Len(s) = Len(r) + 1 + 0
        BY <1>1, <3>1
      <3>3. Tail(s) = r
        BY <2>1 DEF r
      <3>4. QED
        BY <3>1, <3>2, <3>3
    <2>5. Sound(Tail(s))
      BY <1>4
    <2>6. QED
      BY <1>1, <1>4, <2>4, <2>5, AroundSound
  <1>5. CASE Len(s) > 2 /\ s[1] = "(" /\ Last(s) = ")" /\ Inner(s) \in E
    <2>1. Last(s) = s[Len(s)]
      BY DEF Last
    <2>2. /\ 2 \in Nat /\ Len(s) - 1 \in Nat /\ 1 <= 2 /\ Len(s) - 1 <= Len(s)
          /\ 2 <= (Len(s) - 1) + 1 /\ 2 - 1 = 1 /\ (Len(s) - 1) - 2 + 1 = Len(s) - 2
      BY <1>1, <1>5
    <2>3. /\ Part(SubSeq(s, 2, Len(s) - 1), s, 2 - 1)
          /\ Len(SubSeq(s, 2, Len(s) - 1)) = (Len(s) - 1) - 2 + 1
      BY <1>1, <2>2, SubSeqPart
    <2>4. Part(Inner(s), s, 1) /\ Len(s) = Len(Inner(s)) + 1 + 1 /\ 1 \in {0, 1}
      BY <1>1, <2>2, <2>3 DEF Inner
    <2>5. Sound(Inner(s))
      BY <1>5
    <2>6. QED
      BY <1>1, <1>5, <2>1, <2>4, <2>5, AroundSound
  <1>6. QED
    BY <1>2, <1>3, <1>4, <1>5 DEF Composed

(* What every expression is. *)
LEMMA WellFormedSound ==
  ASSUME NEW s, Len(s) \in Nat, WellFormed(s)
  PROVE  Sound(s)
  <1> DEFINE S == {n \in Nat : \A r \in Expressions[n] : Sound(r)}
  <1>1. 0 \in S
    BY ExpressionsGrow
  <1>2. ASSUME NEW n \in S \cap Nat PROVE n + 1 \in S
    <2>1. Expressions[n + 1] = Composed(Expressions[n])
      BY ExpressionsGrow
    <2>2. \A r \in Expressions[n] : Sound(r)
      OBVIOUS
    <2>3. \A r \in Composed(Expressions[n]) : Sound(r)
      BY <2>2, ComposedSound
    <2>4. QED
      BY <2>1, <2>3
  <1> HIDE DEF S
  <1>3. Nat \subseteq S
    BY <1>1, <1>2, SetInduction
  <1>4. QED
    BY <1>3 DEF S, WellFormed

(* A beginning that no expression has. *)
Wrong(s) ==
  \/ \E i \in 1..Len(s) - 1 : s[i] \in Opener /\ s[i + 1] \notin Starter
  \/ \E p \in 1..Len(s) : s[p] = "=" /\ ~Legal(s, p)

LEMMA LegalEarlier ==
  ASSUME NEW s, NEW t, NEW m \in Nat, \A j \in 1..m : t[j] = s[j],
         NEW p \in 1..m, Legal(t, p)
  PROVE  Legal(s, p)
  <1>1. \A j \in 1..m : t[j] = s[0 + j]
    <2> TAKE j \in 1..m
    <2>1. 0 + j = j
      OBVIOUS
    <2>2. QED
      BY <2>1
  <1>2. 0 \in Nat
    OBVIOUS
  <1>3. Legal(s, 0 + p)
    BY <1>1, <1>2, LegalShift
  <1>4. 0 + p = p
    OBVIOUS
  <1>5. QED
    BY <1>3, <1>4

LEMMA WrongStays ==
  ASSUME NEW s \in Seq(Lexemes), NEW t \in Seq(Lexemes), Len(s) <= Len(t),
         \A j \in 1..Len(s) : t[j] = s[j], Wrong(s)
  PROVE  ~WellFormed(t)
  <1> DEFINE n == Len(s)
             m == Len(t)
  <1>1. n \in Nat /\ m \in Nat /\ n <= m
    BY LenProperties
  <1>2. SUFFICES ASSUME WellFormed(t) PROVE FALSE
    OBVIOUS
  <1>3. Followed(t) /\ Assigned(t)
    BY <1>1, <1>2, WellFormedSound DEF Sound
  <1>4. /\ \A i \in 1..m : t[i] \in Opener => t[i + 1] \in Starter
        /\ \A p \in 1..m : t[p] = "=" => Legal(t, p)
    BY <1>3 DEF Followed, Assigned
  <1>5. \A j \in 1..n : t[j] = s[j]
    OBVIOUS
  <1>6. \/ \E i \in 1..n - 1 : s[i] \in Opener /\ s[i + 1] \notin Starter
        \/ \E p \in 1..n : s[p] = "=" /\ ~Legal(s, p)
    BY DEF Wrong
  <1> HIDE DEF n, m
  <1>7. ASSUME NEW i \in 1..n - 1, s[i] \in Opener, s[i + 1] \notin Starter PROVE FALSE
    <2>1. i \in 1..n /\ i + 1 \in 1..n /\ i \in 1..m
      BY <1>1
    <2>2. t[i] = s[i] /\ t[i + 1] = s[i + 1]
      BY <1>5, <2>1
    <2>3. QED
      BY <1>4, <1>7, <2>1, <2>2
  <1>8. ASSUME NEW p \in 1..n, s[p] = "=", ~Legal(s, p) PROVE FALSE
    <2>1. p \in 1..m
      BY <1>1
    <2>2. Legal(t, p)
      BY <1>4, <1>5, <1>8, <2>1
    <2>3. Legal(s, p)
      BY <1>1, <1>5, <2>2, LegalEarlier
    <2>4. QED
      BY <1>8, <2>3
  <1>9. QED
    BY <1>6, <1>7, <1>8

-----------------------------------------------------------------------------
(* Sums over the first elements of a stack. *)

Sums(s, w, g) ==
  /\ g \in [0..Len(s) -> Nat] /\ g[0] = 0
  /\ \A i \in 1..Len(s) : g[i] = g[i - 1] + w[s[i]]

SumTo(s, w, k) == (CHOOSE g : Sums(s, w, g))[k]

LEMMA TallyExists ==
  ASSUME NEW S, NEW w \in [S -> Nat]
  PROVE  \A s \in Seq(S) : \E t : Tally(s, w, t)
  <1> DEFINE M == {n \in Nat : \A s \in Seq(S) : Len(s) = n => \E t : Tally(s, w, t)}
  <1>1. 0 \in M
    <2>1. ASSUME NEW s \in Seq(S), Len(s) = 0 PROVE \E t : Tally(s, w, t)
      BY <2>1, EmptySeq, TallyNone
    <2>2. QED
      BY <2>1
  <1>2. ASSUME NEW n \in M \cap Nat PROVE n + 1 \in M
    <2>1. ASSUME NEW s \in Seq(S), Len(s) = n + 1 PROVE \E t : Tally(s, w, t)
      <3>1. s # <<>>
        BY <2>1, EmptySeq
      <3>2. /\ Front(s) \in Seq(S) /\ Len(Front(s)) = Len(s) - 1 /\ Last(s) \in S
            /\ \A i \in 1..Len(s) - 1 : Front(s)[i] = s[i]
            /\ Last(s) = s[Len(s)]
        BY <3>1, FrontFacts
      <3>3. Len(Front(s)) = n
        BY <2>1, <3>2
      <3>4. PICK t : Tally(Front(s), w, t)
        BY <3>2, <3>3
      <3>5. Tally(Append(Front(s), Last(s)), w, t + w[Last(s)])
        BY <3>2, <3>4, TallyAppend
      <3>6. Append(Front(s), Last(s)) = s
        <4> DEFINE f == Front(s)
                   r == Append(f, Last(s))
        <4>1. /\ r \in Seq(S) /\ Len(r) = Len(f) + 1 /\ r[Len(f) + 1] = Last(s)
              /\ \A i \in 1..Len(f) : r[i] = f[i]
          BY <3>2, AppendProperties
        <4>2. Len(r) = Len(s)
          BY <2>1, <3>3, <4>1
        <4>3. \A i \in 1..n : r[i] = s[i]
          BY <2>1, <3>2, <3>3, <4>1
        <4>4. r[n + 1] = s[n + 1]
          BY <2>1, <3>2, <3>3, <4>1
        <4> HIDE DEF r
        <4>5. \A i \in 1..Len(r) : i \in 1..n \/ i = n + 1
          BY <2>1, <4>2
        <4>6. \A i \in 1..Len(r) : r[i] = s[i]
          BY <4>3, <4>4, <4>5
        <4>7. r = s
          BY <4>1, <4>2, <4>6, SeqEqual
        <4>8. QED
          BY <4>7 DEF r
      <3>7. QED
        BY <3>5, <3>6
    <2>2. QED
      BY <2>1
  <1> HIDE DEF M
  <1>3. Nat \subseteq M
    BY <1>1, <1>2, SetInduction
  <1>4. \A s \in Seq(S) : Len(s) \in M
    BY <1>3, LenProperties
  <1>5. QED
    BY <1>4 DEF M

LEMMA SumsChosen ==
  ASSUME NEW S, NEW w \in [S -> Nat], NEW s \in Seq(S)
  PROVE  Sums(s, w, CHOOSE g : Sums(s, w, g))
  <1>1. PICK t : Tally(s, w, t)
    BY TallyExists
  <1>2. \E g : Sums(s, w, g)
    BY <1>1 DEF Tally, Sums
  <1>3. QED
    BY <1>2

(* s and t agree on their first m elements. *)
Same(s, t, m) ==
  m \in Nat /\ m <= Len(s) /\ m <= Len(t) /\ \A i \in 1..m : s[i] = t[i]

LEMMA SumsAgree ==
  ASSUME NEW s, NEW t, NEW w, NEW g, NEW h, Sums(s, w, g), Sums(t, w, h),
         Len(s) \in Nat, Len(t) \in Nat, NEW m, Same(s, t, m)
  PROVE  \A k \in 0..m : g[k] = h[k]
  <1> USE DEF Same
  <1> DEFINE M == {k \in Nat : k <= m => g[k] = h[k]}
  <1>1. 0 \in M
    BY DEF Sums
  <1>2. ASSUME NEW k \in M \cap Nat PROVE k + 1 \in M
    <2> SUFFICES ASSUME k + 1 <= m PROVE g[k + 1] = h[k + 1]
      OBVIOUS
    <2>1. /\ k + 1 \in 1..m /\ k + 1 \in 1..Len(s) /\ k + 1 \in 1..Len(t)
          /\ (k + 1) - 1 = k /\ g[k] = h[k]
      OBVIOUS
    <2>2. /\ g[k + 1] = g[(k + 1) - 1] + w[s[k + 1]]
          /\ h[k + 1] = h[(k + 1) - 1] + w[t[k + 1]]
      BY <2>1 DEF Sums
    <2>3. s[k + 1] = t[k + 1]
      BY <2>1
    <2>4. QED
      BY <2>1, <2>2, <2>3
  <1> HIDE DEF M
  <1>3. Nat \subseteq M
    BY <1>1, <1>2, SetInduction
  <1>4. QED
    BY <1>3 DEF M

(* Sums agree as far as the stacks do. *)
LEMMA SumToAgree ==
  ASSUME NEW S, NEW w \in [S -> Nat], NEW s \in Seq(S), NEW t \in Seq(S),
         NEW m, Same(s, t, m)
  PROVE  \A k \in 0..m : SumTo(s, w, k) = SumTo(t, w, k)
  <1> DEFINE g == CHOOSE g : Sums(s, w, g)
             h == CHOOSE h : Sums(t, w, h)
  <1>1. Sums(s, w, g) /\ Sums(t, w, h)
    BY SumsChosen
  <1>2. Len(s) \in Nat /\ Len(t) \in Nat
    BY LenProperties
  <1>3. \A k : SumTo(s, w, k) = g[k] /\ SumTo(t, w, k) = h[k]
    BY DEF SumTo
  <1> HIDE DEF g, h
  <1>4. \A k \in 0..m : g[k] = h[k]
    BY <1>1, <1>2, SumsAgree
  <1>5. QED
    BY <1>3, <1>4

LEMMA SumToSteps ==
  ASSUME NEW S, NEW w \in [S -> Nat], NEW s \in Seq(S)
  PROVE  /\ SumTo(s, w, 0) = 0 /\ Len(s) \in Nat
         /\ \A k \in 0..Len(s) : SumTo(s, w, k) \in Nat
         /\ \A k \in 1..Len(s) : /\ SumTo(s, w, k) = SumTo(s, w, k - 1) + w[s[k]]
                                 /\ w[s[k]] \in Nat
  <1> DEFINE g == CHOOSE g : Sums(s, w, g)
  <1>1. Sums(s, w, g)
    BY SumsChosen
  <1>2. Len(s) \in Nat /\ \A k \in 1..Len(s) : s[k] \in S
    BY LenProperties, ElementOfSeq
  <1>3. \A k : SumTo(s, w, k) = g[k]
    BY DEF SumTo
  <1> HIDE DEF g
  <1>4. /\ g \in [0..Len(s) -> Nat] /\ g[0] = 0
        /\ \A i \in 1..Len(s) : g[i] = g[i - 1] + w[s[i]]
    BY <1>1 DEF Sums
  <1>5. QED
    BY <1>2, <1>3, <1>4

LEMMA SumToGrows ==
  ASSUME NEW S, NEW w \in [S -> Nat], NEW s \in Seq(S)
  PROVE  \A k, l \in 0..Len(s) : k <= l => SumTo(s, w, k) <= SumTo(s, w, l)
  <1> DEFINE n == Len(s)
             h(k) == SumTo(s, w, k)
             M == {d \in Nat : \A k \in 0..n : k + d <= n => h(k) <= h(k + d)}
  <1>1. /\ n \in Nat /\ \A k \in 0..n : h(k) \in Nat
        /\ \A k \in 1..n : h(k) = h(k - 1) + w[s[k]] /\ w[s[k]] \in Nat
    BY SumToSteps
  <1> HIDE DEF n, h
  <1>2. 0 \in M
    <2>1. ASSUME NEW k \in 0..n PROVE h(k) <= h(k + 0)
      <3>1. k + 0 = k /\ h(k) \in Nat
        BY <1>1
      <3>2. QED
        BY <3>1
    <2>2. QED
      BY <2>1
  <1>3. ASSUME NEW d \in M \cap Nat PROVE d + 1 \in M
    <2>1. ASSUME NEW k \in 0..n, k + (d + 1) <= n PROVE h(k) <= h(k + (d + 1))
      <3>1. /\ k + d \in 0..n /\ k + d <= n /\ k + (d + 1) \in 1..n
            /\ (k + (d + 1)) - 1 = k + d
        BY <1>1, <2>1
      <3>2. h(k) <= h(k + d)
        BY <3>1
      <3>3. /\ h(k + (d + 1)) = h(k + d) + w[s[k + (d + 1)]]
            /\ w[s[k + (d + 1)]] \in Nat /\ h(k) \in Nat /\ h(k + d) \in Nat
        BY <1>1, <3>1
      <3>4. QED
        BY <3>2, <3>3
    <2>2. QED
      BY <2>1
  <1> HIDE DEF M
  <1>4. Nat \subseteq M
    BY <1>2, <1>3, SetInduction
  <1>5. ASSUME NEW k \in 0..n, NEW l \in 0..n, k <= l PROVE h(k) <= h(l)
    <2>1. l - k \in Nat /\ k + (l - k) = l /\ l <= n
      BY <1>1, <1>5
    <2>2. l - k \in M
      BY <1>4, <2>1
    <2>3. h(k) <= h(k + (l - k))
      BY <2>1, <2>2 DEF M
    <2>4. QED
      BY <2>1, <2>3
  <1>6. QED
    BY <1>5 DEF n, h

LEMMA SumToTally ==
  ASSUME NEW S, NEW w \in [S -> Nat], NEW s \in Seq(S), NEW t, Tally(s, w, t)
  PROVE  t = SumTo(s, w, Len(s))
  <1>1. PICK f \in [0..Len(s) -> Nat] :
          /\ f[0] = 0 /\ f[Len(s)] = t
          /\ \A i \in 1..Len(s) : f[i] = f[i - 1] + w[s[i]]
    BY DEF Tally
  <1> DEFINE g == CHOOSE g : Sums(s, w, g)
             n == Len(s)
  <1>2. Sums(s, w, f)
    BY <1>1 DEF Sums
  <1>3. Sums(s, w, g)
    BY SumsChosen
  <1>4. n \in Nat /\ n <= Len(s) /\ n \in 0..n
    BY LenProperties
  <1>5. SumTo(s, w, n) = g[n]
    BY DEF SumTo
  <1> HIDE DEF g
  <1>6. \A k \in 0..n : f[k] = g[k]
    BY <1>2, <1>3, <1>4, SumsAgree DEF Same
  <1>7. QED
    BY <1>1, <1>4, <1>5, <1>6

LEMMA SumToNesting ==
  ASSUME NEW s \in Seq(Ops), NEW f, Nesting(s, f)
  PROVE  \A k \in 0..Len(s) : f[k] = SumTo(s, ParenWeight, k)
  <1> DEFINE g == CHOOSE g : Sums(s, ParenWeight, g)
             n == Len(s)
  <1>1. Sums(s, ParenWeight, f)
    BY DEF Nesting, Sums
  <1>2. Sums(s, ParenWeight, g)
    BY SumsChosen, WeightTypes
  <1>3. n \in Nat /\ n <= Len(s)
    BY LenProperties
  <1>4. \A k : SumTo(s, ParenWeight, k) = g[k]
    BY DEF SumTo
  <1> HIDE DEF g
  <1>5. \A k \in 0..n : f[k] = g[k]
    BY <1>1, <1>2, <1>3, SumsAgree DEF Same
  <1>6. QED
    BY <1>4, <1>5

-----------------------------------------------------------------------------
(* Where the operand on the left of a waiting operator is.                 *)

LeftOf(ops, regs, k) ==
  SumTo(ops, InfixWeight, k) + SumTo(regs, OpenWeight, SumTo(ops, ParenWeight, k))

(* There are m operands for the operators and the verdicts, and a frame    *)
(* for each parenthesis.                                                   *)
Level(ops, regs, m, waiting) ==
  /\ ops \in Seq(Ops) /\ regs \in Seq(Nat)
  /\ m = SumTo(ops, InfixWeight, Len(ops)) + SumTo(regs, OpenWeight, Len(regs))
  /\ Len(regs) = SumTo(ops, ParenWeight, Len(ops)) + 1
  /\ \A k \in 1..Len(regs) : regs[k] # 0 =>
       \/ waiting /\ k = Len(regs)
       \/ \E i \in 1..Len(ops) : ops[i].lex \in Compare /\ SumTo(ops, ParenWeight, i) + 1 = k

LEMMA LevelNow ==
  IInv /\ Whole => Level(pOpStk, cmpRegStk, Len(pTkStk) - Atoms, Waiting)
  <1> SUFFICES ASSUME IInv, Whole
               PROVE  Level(pOpStk, cmpRegStk, Len(pTkStk) - Atoms, Waiting)
    OBVIOUS
  <1> DEFINE m == Len(pTkStk) - Atoms
             n == Len(pOpStk)
             c == Len(cmpRegStk)
  <1>1. Typed /\ Going /\ pOpStk \in Seq(Ops) /\ cmpRegStk \in Seq(Nat) /\ n \in Nat
    BY CmpRegNat, LenProperties DEF IInv, Typed, Whole, Going
  <1>2. CountsAt(pOpStk, cmpRegStk, Len(cmpLblStk), m)
    BY <1>1 DEF IInv, Counted
  <1>3. FramesAt(pOpStk, cmpRegStk, Waiting)
    BY DEF IInv, Structured
  <1>4. m = SumTo(pOpStk, InfixWeight, n) + SumTo(cmpRegStk, OpenWeight, c)
    <2>1. PICK a, b : /\ Tally(pOpStk, InfixWeight, a) /\ Tally(cmpRegStk, OpenWeight, b)
                      /\ m = a + b
      BY <1>2 DEF CountsAt
    <2>2. a = SumTo(pOpStk, InfixWeight, n) /\ b = SumTo(cmpRegStk, OpenWeight, c)
      BY <1>1, <2>1, WeightTypes, SumToTally
    <2>3. QED
      BY <2>1, <2>2
  <1>5. PICK f : /\ Nesting(pOpStk, f) /\ c = f[n] + 1
                 /\ \A k \in 1..c :
                      cmpRegStk[k] # 0 => (Waiting /\ k = c) \/ Chained(pOpStk, f, k)
    BY <1>3 DEF FramesAt
  <1> HIDE DEF m, n, c
  <1>6. \A k \in 0..n : f[k] = SumTo(pOpStk, ParenWeight, k)
    BY <1>1, <1>5, SumToNesting DEF n
  <1>7. c = SumTo(pOpStk, ParenWeight, n) + 1
    <2>1. n \in 0..n
      BY <1>1
    <2>2. QED
      BY <1>5, <1>6, <2>1
  <1>8. ASSUME NEW k \in 1..c, cmpRegStk[k] # 0
        PROVE  \/ Waiting /\ k = c
               \/ \E i \in 1..n : /\ pOpStk[i].lex \in Compare
                                  /\ SumTo(pOpStk, ParenWeight, i) + 1 = k
    <2>1. CASE Waiting /\ k = c
      BY <2>1
    <2>2. CASE Chained(pOpStk, f, k)
      <3>1. PICK i \in 1..n : pOpStk[i].lex \in Compare /\ f[i] + 1 = k
        BY <2>2 DEF Chained, n
      <3>2. i \in 0..n
        BY <1>1
      <3>3. f[i] = SumTo(pOpStk, ParenWeight, i)
        BY <1>6, <3>2
      <3>4. QED
        BY <3>1, <3>3
    <2>3. QED
      BY <1>5, <1>8, <2>1, <2>2
  <1>9. QED
    BY <1>1, <1>4, <1>7, <1>8 DEF Level, m, n, c

LEMMA LeftBounds ==
  ASSUME NEW ops, NEW regs, NEW m, NEW waiting, Level(ops, regs, m, waiting)
  PROVE  /\ Len(ops) \in Nat /\ Len(regs) \in Nat /\ m \in Nat
         /\ \A k \in 1..Len(ops) :
              /\ SumTo(ops, ParenWeight, k) \in 0..Len(regs) - 1
              /\ LeftOf(ops, regs, k) \in Nat /\ LeftOf(ops, regs, k) <= m
              /\ InfixWeight[ops[k]] = 1 => 1 <= LeftOf(ops, regs, k)
         /\ \A k \in 1..Len(ops) - 1 :
              LeftOf(ops, regs, k) <= m - InfixWeight[ops[Len(ops)]]
  <1> DEFINE n == Len(ops)
             c == Len(regs)
             I(k) == SumTo(ops, InfixWeight, k)
             P(k) == SumTo(ops, ParenWeight, k)
             O(k) == SumTo(regs, OpenWeight, k)
             x == InfixWeight[ops[n]]
  <1>1. /\ ops \in Seq(Ops) /\ regs \in Seq(Nat) /\ m = I(n) + O(c) /\ c = P(n) + 1
    BY DEF Level
  <1>2. /\ n \in Nat /\ I(0) = 0 /\ \A k \in 0..n : I(k) \in Nat
        /\ \A k \in 1..n : I(k) = I(k - 1) + InfixWeight[ops[k]] /\ InfixWeight[ops[k]] \in Nat
    BY <1>1, WeightTypes, SumToSteps
  <1>3. \A k \in 0..n : P(k) \in Nat
    BY <1>1, WeightTypes, SumToSteps
  <1>4. c \in Nat /\ \A k \in 0..c : O(k) \in Nat
    BY <1>1, WeightTypes, SumToSteps
  <1>5. /\ \A k, l \in 0..n : k <= l => I(k) <= I(l)
        /\ \A k, l \in 0..n : k <= l => P(k) <= P(l)
    BY <1>1, WeightTypes, SumToGrows
  <1>6. \A k, l \in 0..c : k <= l => O(k) <= O(l)
    BY <1>1, WeightTypes, SumToGrows
  <1>7. \A k : LeftOf(ops, regs, k) = I(k) + O(P(k))
    BY DEF LeftOf
  <1> HIDE DEF n, c, I, P, O
  <1>8. ASSUME NEW k \in 1..n
        PROVE  /\ P(k) \in 0..c - 1 /\ O(P(k)) \in Nat /\ O(P(k)) <= O(c)
               /\ I(k) \in Nat /\ I(k) <= I(n)
               /\ InfixWeight[ops[k]] = 1 => 1 <= I(k)
    <2>1. k \in 0..n /\ n \in 0..n /\ k <= n /\ k - 1 \in 0..n
      BY <1>2
    <2>2. P(k) <= P(n) /\ P(k) \in Nat /\ P(n) \in Nat
      BY <1>3, <1>5, <2>1
    <2>3. P(k) \in 0..c - 1 /\ P(k) \in 0..c /\ c \in 0..c /\ P(k) <= c
      BY <1>1, <1>4, <2>2
    <2>4. O(P(k)) \in Nat /\ O(P(k)) <= O(c)
      BY <1>4, <1>6, <2>3
    <2>5. I(k) \in Nat /\ I(k) <= I(n)
      BY <1>2, <1>5, <2>1
    <2>6. InfixWeight[ops[k]] = 1 => 1 <= I(k)
      <3>1. I(k) = I(k - 1) + InfixWeight[ops[k]] /\ I(k - 1) \in Nat
        BY <1>2, <2>1
      <3>2. QED
        BY <3>1
    <2>7. QED
      BY <2>3, <2>4, <2>5, <2>6
  <1>9. I(n) \in Nat /\ O(c) \in Nat /\ m \in Nat
    <2>1. n \in 0..n /\ c \in 0..c
      BY <1>2, <1>4
    <2>2. QED
      BY <1>1, <1>2, <1>4, <2>1
  <1>10. ASSUME NEW k \in 1..n
         PROVE  /\ LeftOf(ops, regs, k) \in Nat /\ LeftOf(ops, regs, k) <= m
                /\ InfixWeight[ops[k]] = 1 => 1 <= LeftOf(ops, regs, k)
    BY <1>1, <1>7, <1>8, <1>9
  <1>11. ASSUME NEW k \in 1..n - 1
         PROVE  LeftOf(ops, regs, k) <= m - x
    <2>1. k \in 1..n /\ n \in 1..n /\ k \in 0..n /\ n - 1 \in 0..n /\ k <= n - 1
      BY <1>2
    <2>2. I(k) <= I(n - 1) /\ I(n - 1) \in Nat /\ I(n) = I(n - 1) + x /\ x \in Nat
      BY <1>2, <1>5, <2>1
    <2>3. I(k) \in Nat /\ O(P(k)) \in Nat /\ O(P(k)) <= O(c)
      BY <1>8, <2>1
    <2>4. m - x = I(n - 1) + O(c)
      BY <1>1, <1>9, <2>2
    <2>5. QED
      BY <1>7, <1>9, <2>2, <2>3, <2>4
  <1>12. QED
    BY <1>2, <1>4, <1>8, <1>9, <1>10, <1>11 DEF n, c, P

(* It stays where it is as far as the stacks do. *)
LEMMA LeftKept ==
  ASSUME NEW ops, NEW regs, NEW m, NEW waiting, Level(ops, regs, m, waiting),
         NEW ops2 \in Seq(Ops), NEW regs2 \in Seq(Nat), NEW c,
         Same(ops2, ops, c), Same(regs2, regs, Len(regs) - 1)
  PROVE  \A k \in 1..c : LeftOf(ops2, regs2, k) = LeftOf(ops, regs, k)
  <1>1. ops \in Seq(Ops) /\ regs \in Seq(Nat)
    BY DEF Level
  <1>2. /\ Len(ops) \in Nat /\ Len(regs) \in Nat
        /\ \A k \in 1..Len(ops) : SumTo(ops, ParenWeight, k) \in 0..Len(regs) - 1
    BY LeftBounds
  <1>w. /\ InfixWeight \in [Ops -> Nat] /\ ParenWeight \in [Ops -> Nat]
        /\ OpenWeight \in [Nat -> Nat]
    BY WeightTypes
  <1>3. \A k \in 0..c : SumTo(ops2, InfixWeight, k) = SumTo(ops, InfixWeight, k)
    <2>1. InfixWeight \in [Ops -> Nat]
      BY <1>w
    <2>2. QED
      BY <1>1, <2>1, SumToAgree
  <1>4. \A k \in 0..c : SumTo(ops2, ParenWeight, k) = SumTo(ops, ParenWeight, k)
    <2>1. ParenWeight \in [Ops -> Nat]
      BY <1>w
    <2>2. QED
      BY <1>1, <2>1, SumToAgree
  <1>5. ASSUME NEW k \in 1..c
        PROVE  LeftOf(ops2, regs2, k) = LeftOf(ops, regs, k)
    <2> DEFINE d == Len(regs) - 1
               p == SumTo(ops, ParenWeight, k)
    <2>1. k \in 0..c /\ k \in 1..Len(ops)
      BY <1>2 DEF Same
    <2>2. p \in 0..d
      BY <1>2, <2>1
    <2>3. Same(regs2, regs, d)
      OBVIOUS
    <2> HIDE DEF d, p
    <2>w. OpenWeight \in [Nat -> Nat] /\ regs \in Seq(Nat)
      BY <1>1, <1>w
    <2>5. \A j \in 0..d : SumTo(regs2, OpenWeight, j) = SumTo(regs, OpenWeight, j)
      <3> DEFINE S == Nat
      <3>1. OpenWeight \in [S -> Nat] /\ regs \in Seq(S) /\ regs2 \in Seq(S)
        BY <2>w
      <3> HIDE DEF S
      <3>2. QED
        BY <3>1, <2>3, SumToAgree
    <2>6. SumTo(regs2, OpenWeight, p) = SumTo(regs, OpenWeight, p)
      BY <2>2, <2>5
    <2>7. /\ SumTo(ops2, InfixWeight, k) = SumTo(ops, InfixWeight, k)
          /\ SumTo(ops2, ParenWeight, k) = p
      BY <1>3, <1>4, <2>1 DEF p
    <2>8. QED
      BY <2>6, <2>7 DEF LeftOf, p
  <1>6. QED
    BY <1>5

(* The operators below an assignment in its parentheses are assignments. *)
Lone(ops, k) == k = 1 \/ ops[k - 1].lex \in {"(", "="}

(* When an assignment is the last to wait, the operand on its left is the  *)
(* last but the one on its right: no chain is open in its parentheses.     *)
LEMMA LeftTop ==
  ASSUME NEW ops, NEW regs, NEW m, Level(ops, regs, m, FALSE), ops # <<>>,
         ops[Len(ops)].lex = "=",
         \A k \in 1..Len(ops) : ops[k].lex = "=" => Lone(ops, k)
  PROVE  LeftOf(ops, regs, Len(ops)) = m
  <1> DEFINE n == Len(ops)
             c == Len(regs)
             P(k) == SumTo(ops, ParenWeight, k)
             O(k) == SumTo(regs, OpenWeight, k)
  <1>1. /\ ops \in Seq(Ops) /\ regs \in Seq(Nat)
        /\ m = SumTo(ops, InfixWeight, n) + O(c) /\ c = P(n) + 1
        /\ \A k \in 1..c : regs[k] # 0 =>
             \E i \in 1..n : ops[i].lex \in Compare /\ P(i) + 1 = k
    BY DEF Level
  <1>2. n \in Nat /\ n # 0 /\ \A k \in 1..n : ops[k] \in Ops
    BY <1>1, EmptySeq, LenProperties, ElementOfSeq
  <1>3. /\ \A k \in 0..n : P(k) \in Nat
        /\ \A k \in 1..n : P(k) = P(k - 1) + ParenWeight[ops[k]]
    <2>1. ParenWeight \in [Ops -> Nat] /\ ops \in Seq(Ops)
      BY <1>1, WeightTypes
    <2>2. QED
      BY <2>1, SumToSteps
  <1>4. \A k, l \in 0..n : k <= l => P(k) <= P(l)
    BY <1>1, WeightTypes, SumToGrows
  <1>5. /\ c \in Nat /\ \A k \in 0..c : O(k) \in Nat
        /\ \A k \in 1..c : O(k) = O(k - 1) + OpenWeight[regs[k]]
    <2>1. OpenWeight \in [Nat -> Nat] /\ regs \in Seq(Nat)
      BY <1>1, WeightTypes
    <2>2. QED
      BY <2>1, SumToSteps
  <1>6. LeftOf(ops, regs, n) = SumTo(ops, InfixWeight, n) + O(P(n))
    BY DEF LeftOf
  <1>7. \A k \in 1..n : ops[k].lex = "(" => ParenWeight[ops[k]] = 1
    BY <1>2 DEF ParenWeight
  <1>8. ops[n].lex = "=" /\ \A k \in 1..n : ops[k].lex = "=" => Lone(ops, k)
    OBVIOUS
  <1> HIDE DEF n, c, P, O
  <1>9. ASSUME NEW i \in 1..n, ops[i].lex \in Compare, P(i) = P(n) PROVE FALSE
    <2> DEFINE M == {d \in Nat : d <= n - i => ops[n - d].lex = "="}
    <2>1. 0 \in M
      <3>1. n - 0 = n
        BY <1>2
      <3>2. QED
        BY <1>8, <3>1
    <2>2. ASSUME NEW d \in M \cap Nat PROVE d + 1 \in M
      <3> SUFFICES ASSUME d + 1 <= n - i PROVE ops[n - (d + 1)].lex = "="
        OBVIOUS
      <3> DEFINE k == n - d
      <3>1. /\ d <= n - i /\ k \in 2..n /\ n - (d + 1) = k - 1 /\ k - 1 \in 1..n
            /\ i \in 0..n /\ k - 1 \in 0..n /\ (k - 1) - 1 \in 0..n /\ n \in 0..n
            /\ i <= k - 1 /\ k - 1 <= n /\ k \in 1..n /\ k # 1
        BY <1>2
      <3>2. ops[k].lex = "="
        BY <3>1
      <3> HIDE DEF k
      <3>3. ops[k - 1].lex \in {"(", "="}
        BY <1>8, <3>1, <3>2 DEF Lone
      <3>4. SUFFICES ASSUME ops[k - 1].lex = "(" PROVE FALSE
        BY <3>1, <3>3
      <3>5. P(k - 1) = P((k - 1) - 1) + 1
        BY <1>3, <1>7, <3>1, <3>4
      <3>6. i # k - 1
        BY <1>9, <3>4 DEF Compare
      <3>7. i <= (k - 1) - 1
        BY <1>2, <3>1, <3>6
      <3>8. P(i) <= P((k - 1) - 1) /\ P(k - 1) <= P(n)
        BY <1>4, <3>1, <3>7
      <3>9. P(i) \in Nat /\ P((k - 1) - 1) \in Nat /\ P(n) \in Nat
        BY <1>3, <3>1
      <3>10. QED
        BY <1>9, <3>5, <3>8, <3>9
    <2> HIDE DEF M
    <2>3. Nat \subseteq M
      BY <2>1, <2>2, SetInduction
    <2>4. n - i \in M /\ n - i <= n - i /\ n - (n - i) = i
      BY <1>2, <2>3
    <2>5. ops[i].lex = "="
      BY <2>4 DEF M
    <2>6. QED
      BY <1>9, <2>5 DEF Compare
  <1>10. P(n) \in Nat /\ n \in 0..n
    BY <1>2, <1>3
  <1>11. c \in 1..c /\ c - 1 = P(n) /\ P(n) \in 0..c
    <2>1. c = P(n) + 1 /\ P(n) \in Nat
      BY <1>1, <1>10
    <2> DEFINE p == P(n)
    <2> HIDE DEF p
    <2>2. c = p + 1 /\ p \in Nat
      BY <2>1 DEF p
    <2>3. c \in 1..c /\ c - 1 = p /\ p \in 0..c
      BY <2>2
    <2>4. QED
      BY <2>3 DEF p
  <1>12. regs[c] = 0
    <2>1. SUFFICES ASSUME regs[c] # 0 PROVE FALSE
      OBVIOUS
    <2>2. PICK i \in 1..n : ops[i].lex \in Compare /\ P(i) + 1 = c
      BY <1>1, <1>11, <2>1
    <2>3. P(i) = P(n)
      <3>1. P(i) \in Nat
        BY <1>2, <1>3
      <3>2. QED
        BY <1>1, <1>10, <2>2, <3>1
    <2>4. QED
      BY <1>9, <2>2, <2>3
  <1>13. O(c) = O(P(n))
    <2>1. OpenWeight[regs[c]] = 0
      BY <1>12 DEF OpenWeight
    <2>2. O(c) = O(c - 1) + 0 /\ O(P(n)) \in Nat
      BY <1>5, <1>11, <2>1
    <2>3. QED
      BY <1>11, <2>2
  <1>14. LeftOf(ops, regs, n) = m
    BY <1>1, <1>6, <1>13
  <1>15. QED
    BY <1>14 DEF n

-----------------------------------------------------------------------------
(* Where the waiting operators stand in what has been read.                *)

(* The first c of them stand at pos, a prefix operator right after what    *)
(* waits below it; an assignment waits first in its parentheses, or after  *)
(* another, and has a name on its left if it is a legal one.               *)
Rooting(ops, regs, tks, text, pos, c) ==
  /\ pos \in [1..c -> 1..Len(text)]
  /\ \A k \in 1..c :
       /\ text[pos[k]] = ops[k].lex
       /\ ops[k].syntax = "prefix" => IF k = 1 THEN pos[k] = 1 ELSE pos[k - 1] = pos[k] - 1
       /\ ops[k].lex = "=" =>
            Lone(ops, k) /\ (Legal(text, pos[k]) => tks[LeftOf(ops, regs, k)].isLValue)

(* The last of n stands right before place b. *)
AtTop(pos, n, b) == IF n = 0 THEN b = 1 ELSE pos[n] = b - 1

(* The left operands of the first c operators are among the first q.       *)
Within(ops, regs, c, q) == q \in Nat /\ \A k \in 1..c : LeftOf(ops, regs, k) <= q

(* Up to q, the operands are names or not as they were. *)
Alike(tks, tks2, q) == \A i \in 1..q : tks2[i].isLValue = tks[i].isLValue

LEMMA AssignWeight ==
  ASSUME NEW o \in Ops, o.lex = "="
  PROVE  InfixWeight[o] = 1 /\ o.syntax = "infix"
  <1>1. o.syntax = "infix"
    BY InfixSyntax
  <1>2. QED
    BY <1>1 DEF InfixWeight

(* More has been read, and the first c operators go on waiting.            *)
Onward(ops, regs, tks, text, ops2, regs2, tks2, text2, c, q) ==
  /\ ops2 \in Seq(Ops) /\ regs2 \in Seq(Nat)
  /\ text \in Seq(Lexemes) /\ text2 \in Seq(Lexemes)
  /\ Same(ops2, ops, c) /\ Same(regs2, regs, Len(regs) - 1) /\ Same(text2, text, Len(text))
  /\ Alike(tks, tks2, q) /\ Within(ops, regs, c, q)

(* They stand there still. *)
LEMMA RootKept ==
  ASSUME NEW ops, NEW regs, NEW m, NEW waiting, Level(ops, regs, m, waiting),
         NEW tks, NEW text, NEW pos, Rooting(ops, regs, tks, text, pos, Len(ops)),
         NEW ops2, NEW regs2, NEW tks2, NEW text2, NEW c, NEW q,
         Onward(ops, regs, tks, text, ops2, regs2, tks2, text2, c, q)
  PROVE  \E pos2 : /\ Rooting(ops2, regs2, tks2, text2, pos2, c)
                   /\ \A k \in 1..c : pos2[k] = pos[k]
  <1> DEFINE n == Len(ops)
             t == Len(text)
             pos2 == [k \in 1..c |-> pos[k]]
  <1>0. /\ ops2 \in Seq(Ops) /\ regs2 \in Seq(Nat)
        /\ text \in Seq(Lexemes) /\ text2 \in Seq(Lexemes)
        /\ Same(ops2, ops, c) /\ Same(regs2, regs, Len(regs) - 1) /\ Same(text2, text, Len(text))
        /\ Alike(tks, tks2, q) /\ Within(ops, regs, c, q)
    BY DEF Onward
  <1>1. /\ ops \in Seq(Ops) /\ n \in Nat /\ t \in Nat /\ Len(text2) \in Nat
        /\ \A k \in 1..n : ops[k] \in Ops
    BY <1>0, LenProperties, ElementOfSeq DEF Level
  <1>2. /\ c \in Nat /\ c <= n /\ \A k \in 1..c : ops2[k] = ops[k]
    BY <1>0, <1>1 DEF Same
  <1>3. t <= Len(text2) /\ \A j \in 1..t : text2[j] = text[j]
    BY <1>0 DEF Same
  <1>4. /\ pos \in [1..n -> 1..t]
        /\ \A k \in 1..n :
             /\ text[pos[k]] = ops[k].lex
             /\ ops[k].syntax = "prefix" => IF k = 1 THEN pos[k] = 1 ELSE pos[k - 1] = pos[k] - 1
             /\ ops[k].lex = "=" =>
                  Lone(ops, k) /\ (Legal(text, pos[k]) => tks[LeftOf(ops, regs, k)].isLValue)
    BY DEF Rooting
  <1>5. \A k \in 1..c : LeftOf(ops2, regs2, k) = LeftOf(ops, regs, k)
    BY <1>0, LeftKept
  <1>6. \A k \in 1..n : /\ LeftOf(ops, regs, k) \in Nat
                        /\ InfixWeight[ops[k]] = 1 => 1 <= LeftOf(ops, regs, k)
    BY LeftBounds
  <1> HIDE DEF n, t
  <1>7. pos2 \in [1..c -> 1..Len(text2)] /\ \A k \in 1..c : pos2[k] = pos[k]
    BY <1>1, <1>2, <1>3, <1>4
  <1> HIDE DEF pos2
  <1>8. ASSUME NEW k \in 1..c
        PROVE  /\ text2[pos2[k]] = ops2[k].lex
               /\ ops2[k].syntax = "prefix" =>
                    IF k = 1 THEN pos2[k] = 1 ELSE pos2[k - 1] = pos2[k] - 1
               /\ ops2[k].lex = "=" =>
                    /\ Lone(ops2, k)
                    /\ Legal(text2, pos2[k]) => tks2[LeftOf(ops2, regs2, k)].isLValue
    <2>1. /\ k \in 1..n /\ pos[k] \in 1..t /\ pos2[k] = pos[k] /\ ops2[k] = ops[k]
          /\ k # 1 => k - 1 \in 1..c
      <3>1. k \in 1..n /\ (k # 1 => k - 1 \in 1..c)
        BY <1>1, <1>2
      <3>2. pos[k] \in 1..t
        BY <1>4, <3>1
      <3>3. QED
        BY <1>2, <1>7, <3>1, <3>2
    <2>2. text2[pos2[k]] = ops2[k].lex
      BY <1>3, <1>4, <2>1
    <2>3. ASSUME ops2[k].syntax = "prefix"
          PROVE  IF k = 1 THEN pos2[k] = 1 ELSE pos2[k - 1] = pos2[k] - 1
      <3>1. IF k = 1 THEN pos[k] = 1 ELSE pos[k - 1] = pos[k] - 1
        BY <1>4, <2>1, <2>3
      <3>2. QED
        BY <1>7, <2>1, <3>1
    <2>4. ASSUME ops2[k].lex = "="
          PROVE  Lone(ops2, k)
      <3>1. Lone(ops, k)
        BY <1>4, <2>1, <2>4
      <3>2. QED
        BY <1>2, <2>1, <3>1 DEF Lone
    <2>5. ASSUME ops2[k].lex = "=", Legal(text2, pos2[k])
          PROVE  tks2[LeftOf(ops2, regs2, k)].isLValue
      <3>1. Legal(text, pos[k])
        BY <1>1, <1>3, <2>1, <2>5, LegalEarlier
      <3>2. tks[LeftOf(ops, regs, k)].isLValue
        BY <1>4, <2>1, <2>5, <3>1
      <3>3. ops[k] \in Ops /\ ops[k].lex = "="
        BY <1>1, <2>1, <2>5
      <3>4. InfixWeight[ops[k]] = 1
        BY <3>3, AssignWeight
      <3>5. LeftOf(ops, regs, k) \in 1..q
        BY <1>0, <1>6, <2>1, <3>4 DEF Within
      <3>6. QED
        BY <1>0, <1>5, <3>2, <3>5 DEF Alike
    <2>6. QED
      BY <2>2, <2>3, <2>4, <2>5
  <1>9. QED
    BY <1>7, <1>8 DEF Rooting

(* One more stands at p. *)
NextAt(ops, regs, tks, text, pos, c, p) ==
  /\ p \in 1..Len(text) /\ text[p] = ops[c + 1].lex
  /\ ops[c + 1].syntax = "prefix" => AtTop(pos, c, p)
  /\ ops[c + 1].lex = "=" =>
       /\ Lone(ops, c + 1)
       /\ Legal(text, p) => tks[LeftOf(ops, regs, c + 1)].isLValue

LEMMA RootMore ==
  ASSUME NEW ops, NEW regs, NEW tks, NEW text, NEW c \in Nat,
         NEW pos, Rooting(ops, regs, tks, text, pos, c),
         NEW p, NextAt(ops, regs, tks, text, pos, c, p)
  PROVE  \E pos2 : Rooting(ops, regs, tks, text, pos2, c + 1) /\ pos2[c + 1] = p
  <1> DEFINE d == c + 1
             t == Len(text)
             pos2 == [k \in 1..d |-> IF k = d THEN p ELSE pos[k]]
  <1>1. /\ d \in Nat /\ d \in 1..d /\ \A k \in 1..d : k = d \/ k \in 1..c
        /\ \A k \in 1..c : k \in 1..d /\ k # d
    OBVIOUS
  <1>2. /\ pos \in [1..c -> 1..t]
        /\ \A k \in 1..c :
             /\ text[pos[k]] = ops[k].lex
             /\ ops[k].syntax = "prefix" => IF k = 1 THEN pos[k] = 1 ELSE pos[k - 1] = pos[k] - 1
             /\ ops[k].lex = "=" =>
                  Lone(ops, k) /\ (Legal(text, pos[k]) => tks[LeftOf(ops, regs, k)].isLValue)
    BY DEF Rooting
  <1>3. /\ p \in 1..t /\ text[p] = ops[d].lex
        /\ ops[d].syntax = "prefix" => AtTop(pos, c, p)
        /\ ops[d].lex = "=" =>
             Lone(ops, d) /\ (Legal(text, p) => tks[LeftOf(ops, regs, d)].isLValue)
    BY DEF NextAt
  <1>4. d = 1 <=> c = 0
    OBVIOUS
  <1>5. d - 1 = c
    OBVIOUS
  <1> HIDE DEF d, t
  <1>6. pos2 \in [1..d -> 1..t]
    BY <1>1, <1>2, <1>3
  <1>7. pos2[d] = p /\ \A k \in 1..c : pos2[k] = pos[k]
    BY <1>1
  <1> HIDE DEF pos2
  <1>8. ASSUME NEW k \in 1..d
        PROVE  /\ text[pos2[k]] = ops[k].lex
               /\ ops[k].syntax = "prefix" =>
                    IF k = 1 THEN pos2[k] = 1 ELSE pos2[k - 1] = pos2[k] - 1
               /\ ops[k].lex = "=" =>
                    Lone(ops, k) /\ (Legal(text, pos2[k]) => tks[LeftOf(ops, regs, k)].isLValue)
    <2>1. CASE k = d
      <3>1. ASSUME ops[d].syntax = "prefix"
            PROVE  IF d = 1 THEN pos2[d] = 1 ELSE pos2[d - 1] = pos2[d] - 1
        <4>1. IF c = 0 THEN p = 1 ELSE pos[c] = p - 1
          BY <1>3, <3>1 DEF AtTop
        <4>2. c # 0 => c \in 1..c
          OBVIOUS
        <4>3. QED
          BY <1>4, <1>5, <1>7, <4>1, <4>2
      <3>2. QED
        BY <1>3, <1>7, <2>1, <3>1
    <2>2. CASE k \in 1..c
      <3>1. pos2[k] = pos[k] /\ (k # 1 => pos2[k - 1] = pos[k - 1])
        <4>1. k # 1 => k - 1 \in 1..c
          BY <2>2
        <4>2. QED
          BY <1>7, <2>2, <4>1
      <3>2. QED
        BY <1>2, <2>2, <3>1
    <2>3. QED
      BY <1>1, <2>1, <2>2
  <1>9. Rooting(ops, regs, tks, text, pos2, d)
    BY <1>6, <1>8 DEF Rooting, t
  <1>10. QED
    BY <1>7, <1>9 DEF d

(* A name in parentheses ends in itself or in the parenthesis around one. *)
LEMMA LvAtLast ==
  ASSUME NEW s, NEW b \in Nat, NEW e \in Nat, LvAt(s, b, e)
  PROVE  /\ s[e] \in Range(Names) => b = e
         /\ s[e] = ")" => b < e /\ s[b] = "(" /\ LvAt(s, b + 1, e - 1)
  <1>1. PICK n \in Nat :
          /\ e = b + 2 * n /\ s[b + n] \in Range(Names)
          /\ \A i \in 1..n : s[b + i - 1] = "(" /\ s[e + 1 - i] = ")"
    BY DEF LvAt
  <1>2. CASE n = 0
    <2>1. e = b /\ s[e] \in Range(Names)
      BY <1>1, <1>2
    <2>2. s[e] # ")"
      BY <2>1, Apart
    <2>3. QED
      BY <2>1, <2>2
  <1>3. CASE n # 0
    <2>1. 1 \in 1..n /\ b + 1 - 1 = b /\ e + 1 - 1 = e /\ b < e
      BY <1>1, <1>3
    <2>2. s[b] = "(" /\ s[e] = ")"
      BY <1>1, <2>1
    <2>3. s[e] \notin Range(Names)
      BY <2>2, Apart
    <2>4. LvAt(s, b + 1, e - 1)
      <3> DEFINE k == n - 1
      <3>1. k \in Nat /\ e - 1 = (b + 1) + 2 * k /\ (b + 1) + k = b + n
        BY <1>1, <1>3
      <3>2. ASSUME NEW i \in 1..k
            PROVE  s[(b + 1) + i - 1] = "(" /\ s[(e - 1) + 1 - i] = ")"
        <4>1. /\ i + 1 \in 1..n /\ b + (i + 1) - 1 = (b + 1) + i - 1
              /\ e + 1 - (i + 1) = (e - 1) + 1 - i
          BY <1>1, <1>3
        <4>2. s[b + (i + 1) - 1] = "(" /\ s[e + 1 - (i + 1)] = ")"
          BY <1>1, <4>1
        <4>3. QED
          BY <4>1, <4>2
      <3> HIDE DEF k
      <3>3. s[(b + 1) + k] \in Range(Names)
        BY <1>1, <3>1
      <3>4. QED
        BY <3>1, <3>2, <3>3 DEF LvAt
    <2>5. QED
      BY <2>1, <2>2, <2>3, <2>4
  <1>4. QED
    BY <1>2, <1>3

(* Reading on takes nothing away. *)
LEMMA LvAtEarlier ==
  ASSUME NEW s, NEW t, NEW m \in Nat, \A j \in 1..m : t[j] = s[j],
         NEW b \in 1..m, NEW e \in 1..m, LvAt(t, b, e)
  PROVE  LvAt(s, b, e)
  <1>1. \A j \in 1..m : t[j] = s[0 + j]
    OBVIOUS
  <1>2. 0 \in Nat /\ 0 + b = b /\ 0 + e = e
    OBVIOUS
  <1>3. LvAt(s, 0 + b, 0 + e)
    BY <1>1, <1>2, LvAtShift
  <1>4. QED
    BY <1>2, <1>3

-----------------------------------------------------------------------------
(* What is refused.                                                        *)

(* The waiting operators stand at pos. *)
Standing(pos) == Rooting(pOpStk, cmpRegStk, pTkStk, lexemes, pos, Len(pOpStk))

(* A name in parentheses that has just been read, or of which the next     *)
(* parenthesis has, is the last operand and right of the last operator.    *)
NamedFrom(pos, b) == Last(pTkStk).isLValue /\ AtTop(pos, Len(pOpStk), b)

Recent(pos) ==
  /\ pc = "read" /\ ~isAfterAtom => AtTop(pos, Len(pOpStk), Len(lexemes) + 1)
  /\ pc = "read" /\ isAfterAtom =>
       \A b \in 1..Len(lexemes) : LvAt(lexemes, b, Len(lexemes)) => NamedFrom(pos, b)
  /\ pc = "place" /\ op.lex = ")" =>
       \A b \in 2..Len(lexemes) - 1 :
         LvAt(lexemes, b, Len(lexemes) - 1) /\ lexemes[b - 1] = "(" => NamedFrom(pos, b)

Rooted  == Whole => \E pos : Standing(pos) /\ Recent(pos)
LastLex == pc = "place" => Len(lexemes) # 0 /\ lexemes[Len(lexemes)] = op.lex
Pending ==
  pc = "place" /\ op.lex = "=" /\ Legal(lexemes, Len(lexemes)) =>
    Last(pTkStk).isLValue /\ (pOpStk # <<>> => Last(pOpStk).lex \in {"(", "="})
Opened  ==
  /\ pc \in {"read", "place", "end"} => Depth(lexemes, Len(lexemes)) = paren
  /\ pc = "end" /\ paren # 0 => "unclosed" \in odd
Refused ==
  pc = "error" => \/ Wrong(lexemes)
                  \/ "unclosed" \in odd /\ Depth(lexemes, Len(lexemes)) # 0

RInv == Rooted /\ LastLex /\ Pending /\ Opened /\ Refused

LEMMA RInitInv ==
  Init => RInv
  <1> SUFFICES ASSUME Init PROVE RInv
    OBVIOUS
  <1>1. /\ pc = "read" /\ isAfterAtom = FALSE /\ pOpStk = <<>> /\ lexemes = <<>> /\ paren = 0
    BY DEF Init
  <1>2. Len(pOpStk) = 0 /\ Len(lexemes) = 0
    BY <1>1, EmptySeq
  <1>3. Depth(lexemes, 0) = 0
    BY DepthSteps
  <1>4. Standing([k \in 1..0 |-> 0]) /\ Recent([k \in 1..0 |-> 0])
    <2>1. [k \in 1..0 |-> 0] \in [1..0 -> 1..0] /\ \A k \in 1..0 : FALSE
      OBVIOUS
    <2>2. Rooting(pOpStk, cmpRegStk, pTkStk, lexemes, [k \in 1..0 |-> 0], 0)
      BY <1>2, <2>1 DEF Rooting
    <2>3. AtTop([k \in 1..0 |-> 0], 0, 1)
      BY DEF AtTop
    <2>4. QED
      BY <1>1, <1>2, <2>2, <2>3 DEF Standing, Recent
  <1>5. QED
    BY <1>1, <1>2, <1>3, <1>4 DEF RInv, Rooted, LastLex, Pending, Opened, Refused

LEMMA DepthSame ==
  ASSUME NEW s, NEW t, NEW m \in Nat, \A j \in 1..m : t[j] = s[j]
  PROVE  Depth(t, m) = Depth(s, m)
  <1> DEFINE d == 0
  <1>1. d \in Nat /\ d = 0 /\ \A j \in 1..m : t[j] = s[d + j]
    OBVIOUS
  <1> HIDE DEF d
  <1>2. \A j \in 0..m : Depth(s, d + j) = Depth(s, d) + Depth(t, j)
    BY <1>1, DepthShift
  <1>3. m \in 0..m /\ d + m = m
    BY <1>1
  <1>4. Depth(s, d) = 0 /\ Depth(t, m) \in Int
    BY <1>1, DepthSteps
  <1>5. Depth(s, m) = 0 + Depth(t, m)
    BY <1>2, <1>3, <1>4
  <1>6. QED
    BY <1>4, <1>5

(* One lexeme more. *)
LEMMA TextGrows ==
  ASSUME Typed, NEW x \in Lexemes, Read(x)
  PROVE  /\ lexemes \in Seq(Lexemes) /\ lexemes' \in Seq(Lexemes) /\ Len(lexemes) \in Nat
         /\ Len(lexemes') = Len(lexemes) + 1 /\ lexemes'[Len(lexemes) + 1] = x
         /\ \A j \in 1..Len(lexemes) : lexemes'[j] = lexemes[j]
         /\ Same(lexemes', lexemes, Len(lexemes))
         /\ Depth(lexemes', Len(lexemes')) = Depth(lexemes, Len(lexemes)) + Turn(x)
  <1> DEFINE n == Len(lexemes)
  <1>1. lexemes \in Seq(Lexemes) /\ n \in Nat /\ lexemes' = Append(lexemes, x)
    BY LenProperties DEF Typed, Read
  <1>2. /\ lexemes' \in Seq(Lexemes) /\ Len(lexemes') = n + 1 /\ lexemes'[n + 1] = x
        /\ \A j \in 1..n : lexemes'[j] = lexemes[j]
    BY <1>1, AppendProperties
  <1> HIDE DEF n
  <1>4. Depth(lexemes', n + 1) = Depth(lexemes', n) + Turn(x)
    BY <1>1, <1>2, DepthSteps
  <1>5. Depth(lexemes', n) = Depth(lexemes, n)
    BY <1>1, <1>2, DepthSame
  <1>6. Same(lexemes', lexemes, n)
    BY <1>1, <1>2 DEF Same, n
  <1>7. QED
    BY <1>1, <1>2, <1>4, <1>5, <1>6 DEF n

LEMMA LeftNow ==
  ASSUME IInv, Whole
  PROVE  /\ Len(pOpStk) \in Nat /\ Len(cmpRegStk) \in Nat /\ Len(pTkStk) - Atoms \in Nat
         /\ \A k \in 1..Len(pOpStk) :
              LeftOf(pOpStk, cmpRegStk, k) <= Len(pTkStk) - Atoms
         /\ \A k \in 1..Len(pOpStk) - 1 :
              LeftOf(pOpStk, cmpRegStk, k)
                <= (Len(pTkStk) - Atoms) - InfixWeight[pOpStk[Len(pOpStk)]]
  <1> DEFINE m == Len(pTkStk) - Atoms
  <1>1. Level(pOpStk, cmpRegStk, m, Waiting)
    BY LevelNow
  <1> HIDE DEF m
  <1>2. /\ Len(pOpStk) \in Nat /\ Len(cmpRegStk) \in Nat /\ m \in Nat
        /\ \A k \in 1..Len(pOpStk) : LeftOf(pOpStk, cmpRegStk, k) <= m
        /\ \A k \in 1..Len(pOpStk) - 1 :
             LeftOf(pOpStk, cmpRegStk, k) <= m - InfixWeight[pOpStk[Len(pOpStk)]]
    BY <1>1, LeftBounds
  <1>3. QED
    BY <1>2 DEF m

FramesCounted == cmpRegStk \in Seq(Nat)

LEMMA FramesNat ==
  Typed => FramesCounted
  BY CmpRegNat DEF FramesCounted

(* The operators that go on waiting stand where they did. *)
LEMMA Carried ==
  ASSUME IInv, IInv', Whole, NEW pos, Standing(pos), NEW c, Same(pOpStk', pOpStk, c),
         Same(cmpRegStk', cmpRegStk, Len(cmpRegStk) - 1),
         Same(lexemes', lexemes, Len(lexemes)), NEW q, Alike(pTkStk, pTkStk', q),
         Within(pOpStk, cmpRegStk, c, q)
  PROVE  \E pos2 : /\ Rooting(pOpStk', cmpRegStk', pTkStk', lexemes', pos2, c)
                   /\ \A k \in 1..c : pos2[k] = pos[k]
  <1>1. Level(pOpStk, cmpRegStk, Len(pTkStk) - Atoms, Waiting)
    BY LevelNow
  <1>2. Typed /\ pOpStk' \in Seq(Ops) /\ lexemes' \in Seq(Lexemes) /\ lexemes \in Seq(Lexemes)
    BY DEF IInv, Typed
  <1>3. cmpRegStk' \in Seq(Nat)
    <2>1. Typed'
      BY DEF IInv
    <2>2. FramesCounted'
      BY <2>1, FramesNat, PTL
    <2>3. QED
      BY <2>2 DEF FramesCounted
  <1>4. Rooting(pOpStk, cmpRegStk, pTkStk, lexemes, pos, Len(pOpStk))
    BY DEF Standing
  <1> DEFINE m == Len(pTkStk) - Atoms
  <1>5. Level(pOpStk, cmpRegStk, m, Waiting)
    BY <1>1
  <1> HIDE DEF m
  <1>6. Onward(pOpStk, cmpRegStk, pTkStk, lexemes, pOpStk', cmpRegStk', pTkStk', lexemes', c, q)
    BY <1>2, <1>3 DEF Onward
  <1>7. QED
    BY <1>4, <1>5, <1>6, RootKept

LEMMA SameAll ==
  ASSUME NEW S, NEW s \in Seq(S)
  PROVE  Len(s) \in Nat /\ Same(s, s, Len(s)) /\ (s # <<>> => Same(s, s, Len(s) - 1))
  <1>1. Len(s) \in Nat /\ (s # <<>> => Len(s) # 0)
    BY LenProperties, EmptySeq
  <1>2. QED
    BY <1>1 DEF Same

LEMMA AppendLast ==
  ASSUME NEW S, NEW s \in Seq(S), NEW x \in S
  PROVE  /\ Last(Append(s, x)) = x /\ Same(Append(s, x), s, Len(s))
         /\ Append(s, x)[Len(s) + 1] = x /\ Len(Append(s, x)) = Len(s) + 1 /\ Len(s) \in Nat
         /\ Append(s, x) \in Seq(S)
  <1> DEFINE t == Append(s, x)
  <1>1. /\ t \in Seq(S) /\ Len(s) \in Nat /\ Len(t) = Len(s) + 1 /\ t[Len(s) + 1] = x
        /\ \A j \in 1..Len(s) : t[j] = s[j]
    BY LenProperties, AppendProperties
  <1> HIDE DEF t
  <1>2. Last(t) = x
    BY <1>1 DEF Last
  <1>3. Same(t, s, Len(s))
    BY <1>1 DEF Same
  <1>4. QED
    BY <1>1, <1>2, <1>3 DEF t

LEMMA AtTopSame ==
  ASSUME NEW n \in Nat, NEW pos, NEW pos2, \A k \in 1..n : pos2[k] = pos[k], NEW b
  PROVE  AtTop(pos2, n, b) <=> AtTop(pos, n, b)
  BY DEF AtTop

-----------------------------------------------------------------------------
(* Reading keeps what is known of where the operators stand.               *)

LEMMA AlikeSame ==
  ASSUME NEW s, NEW t, NEW q, Same(t, s, q)
  PROVE  Alike(s, t, q)
  BY DEF Same, Alike

LEMMA StackTypes ==
  ASSUME IInv
  PROVE  /\ Typed /\ pOpStk \in Seq(Ops) /\ Len(pOpStk) \in Nat
         /\ \A k \in 1..Len(pOpStk) : pOpStk[k] \in Ops
         /\ (pOpStk # <<>> => Len(pOpStk) # 0 /\ Last(pOpStk) = pOpStk[Len(pOpStk)])
         /\ pTkStk \in Seq(Operands(Len(run.reg))) /\ Len(pTkStk) \in Nat
         /\ cmpRegStk \in Seq(Nat) /\ cmpRegStk # <<>> /\ Len(cmpRegStk) \in Nat
         /\ lexemes \in Seq(Lexemes) /\ Len(lexemes) \in Nat
         /\ paren \in Nat
  <1>1. /\ Typed /\ pOpStk \in Seq(Ops) /\ pTkStk \in Seq(Operands(Len(run.reg)))
        /\ cmpRegStk # <<>> /\ lexemes \in Seq(Lexemes) /\ paren \in Nat
    BY DEF IInv, Typed, Bounded
  <1>2. cmpRegStk \in Seq(Nat) /\ Len(cmpRegStk) \in Nat
    BY <1>1, CmpRegNat
  <1>3. Len(pOpStk) \in Nat /\ \A k \in 1..Len(pOpStk) : pOpStk[k] \in Ops
    BY <1>1, LenProperties, ElementOfSeq
  <1>4. pOpStk # <<>> => Len(pOpStk) # 0 /\ Last(pOpStk) = pOpStk[Len(pOpStk)]
    BY <1>1, FrontFacts
  <1>5. Len(pTkStk) \in Nat /\ Len(lexemes) \in Nat
    BY <1>1, LenProperties
  <1>6. QED
    BY <1>1, <1>2, <1>3, <1>4, <1>5

(* An operator is not a name, and starts no operand if it is not prefix. *)
LEMMA LexOpener ==
  ASSUME NEW o \in Ops
  PROVE  o.lex \in Opener /\ (o.syntax = "prefix" \/ o.syntax = "infix")
  BY DEF Ops, InfixOps, PrefixOps, Opener

LEMMA AtomRooted ==
  IInv /\ IInv' /\ RInv /\ Atom => RInv'
  <1> SUFFICES ASSUME IInv, IInv', RInv, Atom PROVE RInv'
    OBVIOUS
  <1>1. PICK i \in DOMAIN Names : Read(Names[i]) /\ pTkStk' = Append(pTkStk, Name(i))
    BY DEF Atom
  <1>2. /\ pc = "read" /\ ~isAfterAtom /\ isAfterAtom' = TRUE
        /\ UNCHANGED <<pc, paren, pOpStk, cmpRegStk, op, odd>>
    BY DEF Atom, chains
  <1> DEFINE n == Len(pOpStk)
             t == Len(lexemes)
             q == Len(pTkStk)
  <1>3. Names[i] \in Range(Names) /\ Names[i] \in Lexemes
    BY <1>1 DEF Range, Lexemes
  <1>4. /\ lexemes' \in Seq(Lexemes) /\ t \in Nat /\ Len(lexemes') = t + 1
        /\ lexemes'[t + 1] = Names[i] /\ Same(lexemes', lexemes, t)
        /\ Depth(lexemes', Len(lexemes')) = Depth(lexemes, t) + Turn(Names[i])
    BY <1>1, <1>3, TextGrows, StackTypes
  <1>5. Whole /\ Atoms = 0
    BY <1>2 DEF Whole, Atoms
  <1>6. PICK pos : Standing(pos) /\ Recent(pos)
    BY <1>5 DEF RInv, Rooted
  <1>7. AtTop(pos, n, t + 1)
    BY <1>2, <1>6 DEF Recent
  <1>8. /\ n \in Nat /\ q \in Nat /\ pTkStk \in Seq(Operands(Len(run.reg)))
        /\ Same(pOpStk', pOpStk, n) /\ Same(cmpRegStk', cmpRegStk, Len(cmpRegStk) - 1)
    BY <1>2, StackTypes, SameAll
  <1>9. Within(pOpStk, cmpRegStk, n, q)
    <2>1. q - Atoms = q
      BY <1>5, <1>8
    <2>2. \A k \in 1..n : LeftOf(pOpStk, cmpRegStk, k) <= q - Atoms
      BY <1>5, LeftNow
    <2>3. QED
      BY <1>8, <2>1, <2>2 DEF Within
  <1>10. Alike(pTkStk, pTkStk', q) /\ Last(pTkStk') = Name(i)
    <2>1. Name(i) \in Operands(Len(run.reg))
      BY NameFacts
    <2>2. Last(pTkStk') = Name(i) /\ Same(pTkStk', pTkStk, q)
      BY <1>1, <1>8, <2>1, AppendLast
    <2>3. QED
      BY <2>2, AlikeSame
  <1>11. PICK pos2 : /\ Rooting(pOpStk', cmpRegStk', pTkStk', lexemes', pos2, n)
                     /\ \A k \in 1..n : pos2[k] = pos[k]
    BY <1>4, <1>5, <1>6, <1>8, <1>9, <1>10, Carried
  <1>12. Standing(pos2)'
    BY <1>2, <1>11 DEF Standing
  <1>13. Recent(pos2)'
    <2>1. ASSUME NEW b \in 1..Len(lexemes'), LvAt(lexemes', b, Len(lexemes'))
          PROVE  Last(pTkStk').isLValue /\ AtTop(pos2, Len(pOpStk'), b)
      <3>1. b = t + 1
        BY <1>3, <1>4, <2>1, LvAtLast
      <3>2. Last(pTkStk').isLValue
        BY <1>10 DEF Name
      <3>3. AtTop(pos2, n, t + 1)
        BY <1>7, <1>8, <1>11, AtTopSame
      <3>4. QED
        BY <1>2, <3>1, <3>2, <3>3
    <2>2. pc' = "read" /\ isAfterAtom'
      BY <1>2
    <2>3. QED
      BY <2>1, <2>2 DEF Recent, NamedFrom
  <1>14. Rooted'
    BY <1>12, <1>13 DEF Rooted
  <1>15. Opened'
    <2>1. Turn(Names[i]) = 0
      BY <1>3, Apart DEF Turn
    <2>2. Depth(lexemes, t) = paren /\ paren \in Nat
      BY <1>2, StackTypes DEF RInv, Opened
    <2>3. QED
      BY <1>2, <1>4, <2>1, <2>2 DEF Opened
  <1>16. LastLex' /\ Pending' /\ Refused'
    BY <1>2 DEF LastLex, Pending, Refused
  <1>17. QED
    BY <1>14, <1>15, <1>16 DEF RInv

LEMMA PrefixOpRooted ==
  IInv /\ IInv' /\ RInv /\ PrefixOp => RInv'
  <1> SUFFICES ASSUME IInv, IInv', RInv, PrefixOp PROVE RInv'
    OBVIOUS
  <1>1. PICK x \in Prefix \cup {"("} :
          /\ Read(x) /\ pOpStk' = Append(pOpStk, [lex |-> x, syntax |-> "prefix"])
          /\ paren' = IF x = "(" THEN paren + 1 ELSE paren
          /\ cmpRegStk' = IF x = "(" THEN Append(cmpRegStk, 0) ELSE cmpRegStk
    BY DEF PrefixOp
  <1>2. /\ pc = "read" /\ ~isAfterAtom
        /\ UNCHANGED <<pc, isAfterAtom, pTkStk, op, odd>>
    BY DEF PrefixOp
  <1> DEFINE n == Len(pOpStk)
             t == Len(lexemes)
             q == Len(pTkStk)
             o == [lex |-> x, syntax |-> "prefix"]
  <1>3. /\ x \in Lexemes /\ o \in Ops /\ o.lex = x /\ o.syntax = "prefix" /\ x # "=" /\ x # ")"
        /\ Turn(x) = IF x = "(" THEN 1 ELSE 0
    BY Apart DEF Lexemes, Ops, PrefixOps, Turn
  <1>4. /\ lexemes' \in Seq(Lexemes) /\ t \in Nat /\ Len(lexemes') = t + 1
        /\ lexemes'[t + 1] = x /\ Same(lexemes', lexemes, t)
        /\ Depth(lexemes', Len(lexemes')) = Depth(lexemes, t) + Turn(x)
    BY <1>1, <1>3, TextGrows, StackTypes
  <1>5. Whole /\ Atoms = 0
    BY <1>2 DEF Whole, Atoms
  <1>6. PICK pos : Standing(pos) /\ Recent(pos)
    BY <1>5 DEF RInv, Rooted
  <1>7. AtTop(pos, n, t + 1)
    BY <1>2, <1>6 DEF Recent
  <1>8. /\ n \in Nat /\ q \in Nat /\ pTkStk \in Seq(Operands(Len(run.reg)))
        /\ pOpStk \in Seq(Ops) /\ cmpRegStk \in Seq(Nat) /\ Len(cmpRegStk) \in Nat
        /\ cmpRegStk # <<>>
    BY StackTypes
  <1>9. /\ pOpStk' = Append(pOpStk, o) /\ Same(pOpStk', pOpStk, n) /\ pOpStk'[n + 1] = o
        /\ Len(pOpStk') = n + 1
    BY <1>1, <1>3, <1>8, AppendLast
  <1> HIDE DEF o
  <1>10. Same(cmpRegStk', cmpRegStk, Len(cmpRegStk) - 1)
    <2>1. Same(cmpRegStk, cmpRegStk, Len(cmpRegStk) - 1)
      BY <1>8, SameAll
    <2>2. Same(Append(cmpRegStk, 0), cmpRegStk, Len(cmpRegStk))
      <3> DEFINE S == Nat
      <3>1. cmpRegStk \in Seq(S) /\ 0 \in S
        BY <1>8
      <3> HIDE DEF S
      <3>2. QED
        BY <3>1, AppendLast
    <2>3. Same(Append(cmpRegStk, 0), cmpRegStk, Len(cmpRegStk) - 1)
      <3>1. Len(cmpRegStk) - 1 \in Nat
        BY <2>1 DEF Same
      <3>2. QED
        BY <1>8, <2>2, <3>1 DEF Same
    <2>4. QED
      BY <1>1, <2>1, <2>3
  <1>11. Within(pOpStk, cmpRegStk, n, q)
    <2>1. q - Atoms = q
      BY <1>5, <1>8
    <2>2. \A k \in 1..n : LeftOf(pOpStk, cmpRegStk, k) <= q - Atoms
      BY <1>5, LeftNow
    <2>3. QED
      BY <1>8, <2>1, <2>2 DEF Within
  <1>12. Alike(pTkStk, pTkStk', q)
    BY <1>2 DEF Alike
  <1>13. PICK pos2 : /\ Rooting(pOpStk', cmpRegStk', pTkStk', lexemes', pos2, n)
                     /\ \A k \in 1..n : pos2[k] = pos[k]
    BY <1>4, <1>5, <1>6, <1>9, <1>10, <1>11, <1>12, Carried
  <1>14. AtTop(pos2, n, t + 1)
    BY <1>7, <1>8, <1>13, AtTopSame
  <1>15. PICK pos3 : /\ Rooting(pOpStk', cmpRegStk', pTkStk', lexemes', pos3, n + 1)
                     /\ pos3[n + 1] = t + 1
    <2>1. t + 1 \in 1..Len(lexemes')
      BY <1>4
    <2>2. /\ lexemes'[t + 1] = pOpStk'[n + 1].lex /\ pOpStk'[n + 1].lex # "="
          /\ pOpStk'[n + 1].syntax = "prefix" => AtTop(pos2, n, t + 1)
      BY <1>3, <1>4, <1>9, <1>14
    <2>3. NextAt(pOpStk', cmpRegStk', pTkStk', lexemes', pos2, n, t + 1)
      BY <2>1, <2>2 DEF NextAt
    <2>4. QED
      BY <1>8, <1>13, <2>3, RootMore
  <1>16. Standing(pos3)'
    BY <1>9, <1>15 DEF Standing
  <1>17. Recent(pos3)'
    <2>1. AtTop(pos3, Len(pOpStk'), Len(lexemes') + 1)
      BY <1>4, <1>8, <1>9, <1>15 DEF AtTop
    <2>2. pc' = "read" /\ ~isAfterAtom'
      BY <1>2
    <2>3. QED
      BY <2>1, <2>2 DEF Recent
  <1>18. Rooted'
    BY <1>16, <1>17 DEF Rooted
  <1>19. Opened'
    <2>1. Depth(lexemes, t) = paren /\ paren \in Nat
      BY <1>2, StackTypes DEF RInv, Opened
    <2>2. Depth(lexemes', Len(lexemes')) = paren'
      BY <1>1, <1>3, <1>4, <2>1
    <2>3. QED
      BY <1>2, <2>2 DEF Opened
  <1>20. LastLex' /\ Pending' /\ Refused'
    BY <1>2 DEF LastLex, Pending, Refused
  <1>21. QED
    BY <1>18, <1>19, <1>20 DEF RInv

(* An operand is missing: what was read last is an operator. *)
LEMMA NotAnAtomRooted ==
  IInv /\ IInv' /\ RInv /\ NotAnAtom => RInv'
  <1> SUFFICES ASSUME IInv, IInv', RInv, NotAnAtom PROVE RInv'
    OBVIOUS
  <1>1. PICK x : x \in {")", ";"} /\ Read(x)
    BY DEF NotAnAtom
  <1>2. /\ pc = "read" /\ ~isAfterAtom /\ UNCHANGED pOpStk
        /\ pc' = IF pOpStk # <<>> THEN "error" ELSE "none"
    BY DEF NotAnAtom, parsing
  <1> DEFINE n == Len(pOpStk)
             t == Len(lexemes)
  <1>3. x \in Lexemes /\ x \notin Starter
    BY <1>1, Apart DEF Lexemes
  <1>4. /\ t \in Nat /\ Len(lexemes') = t + 1 /\ lexemes'[t + 1] = x
        /\ \A j \in 1..t : lexemes'[j] = lexemes[j]
    BY <1>1, <1>3, TextGrows, StackTypes
  <1>5. PICK pos : Standing(pos) /\ Recent(pos)
    BY <1>2 DEF RInv, Rooted, Whole
  <1>6. AtTop(pos, n, t + 1)
    BY <1>2, <1>5 DEF Recent
  <1>7. ASSUME pOpStk # <<>> PROVE Wrong(lexemes')
    <2>0. n \in Nat /\ n # 0 /\ \A k \in 1..n : pOpStk[k] \in Ops
      BY <1>7, StackTypes
    <2>1. n \in 1..n
      BY <2>0
    <2>2. pos[n] \in 1..t /\ lexemes[pos[n]] = pOpStk[n].lex
      BY <1>5, <2>1 DEF Standing, Rooting
    <2>3. pos[n] = t
      <3>1. pos[n] = (t + 1) - 1
        BY <1>6, <2>0 DEF AtTop
      <3>2. (t + 1) - 1 = t
        BY <1>4
      <3>3. QED
        BY <3>1, <3>2
    <2>4. pOpStk[n].lex \in Opener
      BY <2>0, <2>1, LexOpener
    <2>5. t \in 1..t /\ t \in 1..Len(lexemes') - 1
      <3>1. t \in 1..t
        BY <2>2, <2>3
      <3>2. Len(lexemes') - 1 = t
        BY <1>4
      <3>3. QED
        BY <3>1, <3>2
    <2>6. lexemes'[t] \in Opener /\ lexemes'[t + 1] \notin Starter
      BY <1>3, <1>4, <2>2, <2>3, <2>4, <2>5
    <2>7. QED
      BY <2>5, <2>6 DEF Wrong
  <1>8. QED
    BY <1>2, <1>7 DEF RInv, Rooted, Whole, LastLex, Pending, Opened, Refused

LEMMA InfixOpRooted ==
  IInv /\ IInv' /\ RInv /\ InfixOp => RInv'
  <1> SUFFICES ASSUME IInv, IInv', RInv, InfixOp PROVE RInv'
    OBVIOUS
  <1>1. PICK x \in Infix : Read(x) /\ op' = [lex |-> x, syntax |-> "infix"]
    BY DEF InfixOp
  <1>2. /\ pc = "read" /\ isAfterAtom /\ pc' = "place"
        /\ UNCHANGED <<isAfterAtom, paren, pOpStk, pTkStk, cmpRegStk, odd>>
    BY DEF InfixOp, parsing, chains
  <1> DEFINE n == Len(pOpStk)
             t == Len(lexemes)
             q == Len(pTkStk)
  <1>3. x \in Lexemes /\ Turn(x) = 0 /\ op'.lex = x /\ op'.lex # ")"
    BY <1>1, Apart DEF Lexemes, Turn
  <1>4. /\ lexemes' \in Seq(Lexemes) /\ t \in Nat /\ Len(lexemes') = t + 1
        /\ lexemes'[t + 1] = x /\ Same(lexemes', lexemes, t)
        /\ \A j \in 1..t : lexemes'[j] = lexemes[j]
        /\ Depth(lexemes', Len(lexemes')) = Depth(lexemes, t) + Turn(x)
    BY <1>1, <1>3, TextGrows, StackTypes
  <1>5. Whole /\ Atoms = 1
    BY <1>2 DEF Whole, Atoms
  <1>6. PICK pos : Standing(pos) /\ Recent(pos)
    BY <1>5 DEF RInv, Rooted
  <1>7. \A b \in 1..t : LvAt(lexemes, b, t) => Last(pTkStk).isLValue /\ AtTop(pos, n, b)
    BY <1>2, <1>6 DEF Recent, NamedFrom
  <1>8. /\ n \in Nat /\ q \in Nat
        /\ Same(pOpStk', pOpStk, n) /\ Same(cmpRegStk', cmpRegStk, Len(cmpRegStk) - 1)
    BY <1>2, StackTypes, SameAll
  <1>9. Within(pOpStk, cmpRegStk, n, q - Atoms) /\ Alike(pTkStk, pTkStk', q - Atoms)
    BY <1>2, <1>5, LeftNow DEF Within, Alike
  <1>10. PICK pos2 : Rooting(pOpStk', cmpRegStk', pTkStk', lexemes', pos2, n)
    BY <1>4, <1>5, <1>6, <1>8, <1>9, Carried
  <1>11. Standing(pos2)'
    BY <1>2, <1>10 DEF Standing
  <1>12. Recent(pos2)'
    BY <1>2, <1>3 DEF Recent
  <1>13. Rooted'
    BY <1>11, <1>12 DEF Rooted
  <1>14. LastLex'
    <2>1. Len(lexemes') # 0 /\ lexemes'[Len(lexemes')] = op'.lex
      BY <1>3, <1>4
    <2>2. QED
      BY <2>1 DEF LastLex
  <1>15. Pending'
    <2>1. ASSUME Legal(lexemes', Len(lexemes'))
          PROVE  Last(pTkStk).isLValue /\ (pOpStk # <<>> => Last(pOpStk).lex \in {"(", "="})
      <3>1. PICK b \in 1..t :
              LvAt(lexemes', b, t) /\ (b = 1 \/ lexemes'[b - 1] \in {"(", "="})
        <4>1. Len(lexemes') - 1 = t
          BY <1>4
        <4>2. QED
          BY <2>1, <4>1 DEF Legal
      <3>2. t \in 1..t /\ b \in 1..t
        BY <1>4, <3>1
      <3>3. LvAt(lexemes, b, t)
        BY <1>4, <3>1, <3>2, LvAtEarlier
      <3>4. Last(pTkStk).isLValue /\ AtTop(pos, n, b)
        BY <1>7, <3>2, <3>3
      <3>5. ASSUME pOpStk # <<>> PROVE Last(pOpStk).lex \in {"(", "="}
        <4>1. n # 0 /\ n \in 1..n /\ Last(pOpStk) = pOpStk[n]
          BY <3>5, StackTypes
        <4>2. pos[n] \in 1..t /\ lexemes[pos[n]] = pOpStk[n].lex
          BY <1>6, <4>1 DEF Standing, Rooting
        <4>3. pos[n] = b - 1
          BY <3>4, <4>1 DEF AtTop
        <4>4. b # 1 /\ b - 1 \in 1..t
          BY <1>4, <3>2, <4>2, <4>3
        <4>5. lexemes'[b - 1] = lexemes[b - 1] /\ lexemes'[b - 1] \in {"(", "="}
          BY <1>4, <3>1, <4>4
        <4>6. QED
          BY <4>1, <4>2, <4>3, <4>5
      <3>6. QED
        BY <3>4, <3>5
    <2>2. QED
      BY <1>2, <2>1 DEF Pending
  <1>16. Opened'
    <2>1. Depth(lexemes, t) = paren /\ paren \in Nat
      BY <1>2, StackTypes DEF RInv, Opened
    <2>2. Depth(lexemes', Len(lexemes')) = paren'
      BY <1>2, <1>3, <1>4, <2>1
    <2>3. QED
      BY <1>2, <2>2 DEF Opened
  <1>17. Refused'
    BY <1>2 DEF Refused
  <1>18. QED
    BY <1>13, <1>14, <1>15, <1>16, <1>17 DEF RInv

LEMMA CloseParenRooted ==
  IInv /\ IInv' /\ RInv /\ CloseParen => RInv'
  <1> SUFFICES ASSUME IInv, IInv', RInv, CloseParen PROVE RInv'
    OBVIOUS
  <1>1. /\ Read(")") /\ op'.lex = ")" /\ pc = "read" /\ isAfterAtom /\ pc' = "place"
        /\ paren' = paren - 1 /\ UNCHANGED <<isAfterAtom, pOpStk, pTkStk, cmpRegStk, odd>>
    BY DEF CloseParen, chains
  <1> DEFINE n == Len(pOpStk)
             t == Len(lexemes)
             q == Len(pTkStk)
  <1>2. ")" \in Lexemes /\ Turn(")") = -1
    BY DEF Lexemes, Turn
  <1>3. /\ lexemes' \in Seq(Lexemes) /\ t \in Nat /\ Len(lexemes') = t + 1
        /\ lexemes'[t + 1] = ")" /\ Same(lexemes', lexemes, t)
        /\ \A j \in 1..t : lexemes'[j] = lexemes[j]
        /\ Depth(lexemes', Len(lexemes')) = Depth(lexemes, t) + Turn(")")
    BY <1>1, <1>2, TextGrows, StackTypes
  <1>4. Whole
    BY <1>1 DEF Whole
  <1>5. PICK pos : Standing(pos) /\ Recent(pos)
    BY <1>4 DEF RInv, Rooted
  <1>6. \A b \in 1..t : LvAt(lexemes, b, t) => Last(pTkStk).isLValue /\ AtTop(pos, n, b)
    BY <1>1, <1>5 DEF Recent, NamedFrom
  <1>7. /\ n \in Nat /\ q \in Nat
        /\ Same(pOpStk', pOpStk, n) /\ Same(cmpRegStk', cmpRegStk, Len(cmpRegStk) - 1)
    BY <1>1, StackTypes, SameAll
  <1>8. Within(pOpStk, cmpRegStk, n, q - Atoms) /\ Alike(pTkStk, pTkStk', q - Atoms)
    BY <1>1, <1>4, LeftNow DEF Within, Alike
  <1>9. PICK pos2 : /\ Rooting(pOpStk', cmpRegStk', pTkStk', lexemes', pos2, n)
                    /\ \A k \in 1..n : pos2[k] = pos[k]
    BY <1>3, <1>4, <1>5, <1>7, <1>8, Carried
  <1>10. Standing(pos2)'
    BY <1>1, <1>9 DEF Standing
  <1>11. Recent(pos2)'
    <2>1. ASSUME NEW b \in 2..Len(lexemes') - 1, LvAt(lexemes', b, Len(lexemes') - 1)
          PROVE  Last(pTkStk').isLValue /\ AtTop(pos2, Len(pOpStk'), b)
      <3>1. Len(lexemes') - 1 = t /\ b \in 1..t /\ t \in 1..t
        BY <1>3
      <3>2. LvAt(lexemes, b, t)
        BY <1>3, <2>1, <3>1, LvAtEarlier
      <3>3. Last(pTkStk).isLValue /\ AtTop(pos, n, b)
        BY <1>6, <3>1, <3>2
      <3>4. AtTop(pos2, n, b)
        BY <1>7, <1>9, <3>3, AtTopSame
      <3>5. QED
        BY <1>1, <3>3, <3>4
    <2>2. QED
      BY <1>1, <2>1 DEF Recent, NamedFrom
  <1>12. Rooted'
    BY <1>10, <1>11 DEF Rooted
  <1>13. LastLex'
    <2>1. Len(lexemes') # 0 /\ lexemes'[Len(lexemes')] = op'.lex
      BY <1>1, <1>3
    <2>2. QED
      BY <2>1 DEF LastLex
  <1>14. Opened'
    <2>1. Depth(lexemes, t) = paren /\ paren \in Nat
      BY <1>1, StackTypes DEF RInv, Opened
    <2>2. Depth(lexemes', Len(lexemes')) = paren'
      BY <1>1, <1>2, <1>3, <2>1
    <2>3. QED
      BY <1>1, <2>2 DEF Opened
  <1>15. Pending' /\ Refused'
    BY <1>1 DEF Pending, Refused
  <1>16. QED
    BY <1>12, <1>13, <1>14, <1>15 DEF RInv

LEMMA StopRooted ==
  IInv /\ IInv' /\ RInv /\ Stop => RInv'
  <1> SUFFICES ASSUME IInv, IInv', RInv, Stop PROVE RInv'
    OBVIOUS
  <1>1. /\ pc = "read" /\ pc' = "end"
        /\ odd' = IF paren # 0 THEN odd \cup {"unclosed"} ELSE odd
        /\ UNCHANGED <<lexemes, isAfterAtom, paren, pOpStk, pTkStk, cmpRegStk>>
    BY DEF Stop, Fixed, parsing, chains
  <1>2. PICK pos : Standing(pos)
    BY <1>1 DEF RInv, Rooted, Whole
  <1>3. Standing(pos)'
    BY <1>1, <1>2 DEF Standing
  <1>4. Recent(pos)'
    BY <1>1 DEF Recent
  <1>5. Rooted'
    BY <1>3, <1>4 DEF Rooted
  <1>6. Opened'
    BY <1>1 DEF Opened, RInv
  <1>7. QED
    BY <1>1, <1>5, <1>6 DEF RInv, LastLex, Pending, Refused

-----------------------------------------------------------------------------
(* Handling keeps what is known of the operators that go on waiting.       *)

LEMMA AlikeTaken ==
  ASSUME NEW S, NEW s \in Seq(S), NEW n \in Nat, n <= Len(s), NEW t,
         \/ t = SubSeq(s, 1, n)
         \/ \E x : t = Append(SubSeq(s, 1, n), x)
         \/ \E x, y : t = SubSeq(s, 1, n) \o <<x, y>>
  PROVE  Alike(s, t, n)
  <1> DEFINE r == SubSeq(s, 1, n)
  <1>1. Len(s) \in Nat
    BY LenProperties
  <1>2. /\ 1 - 1 = 0 /\ n - 1 + 1 = n
        /\ \A i \in 1..n : i \in 1..Len(s) /\ 1 + i - 1 = i
    BY <1>1
  <1>3. r \in Seq(S) /\ Len(r) = n
    BY Dropped
  <1>4. \A i \in 1..n : r[i] = s[i]
    <2>1. \A i \in 1..n : s[i] \in S
      BY <1>2, ElementOfSeq
    <2>2. QED
      BY <1>1, <1>2, <2>1, SubSeqProperties
  <1> HIDE DEF r
  <1>5. \A i \in 1..n : t[i] = r[i]
    <2>1. CASE t = r
      BY <2>1
    <2>2. CASE \E x : t = Append(r, x)
      <3>1. PICK x : t = Append(r, x)
        BY <2>2
      <3> DEFINE T == S \cup {x}
      <3>2. r \in Seq(T) /\ x \in T
        BY <1>3, SeqGrow
      <3> HIDE DEF T
      <3>3. \A i \in 1..Len(r) : Append(r, x)[i] = r[i]
        BY <3>2, AppendProperties
      <3>4. QED
        BY <1>3, <3>1, <3>3
    <2>3. CASE \E x, y : t = r \o <<x, y>>
      <3>1. PICK x, y : t = r \o <<x, y>>
        BY <2>3
      <3> DEFINE T == S \cup {x, y}
                 u == <<x, y>>
      <3>2. r \in Seq(T) /\ u \in Seq(T) /\ Len(u) \in Nat
        BY <1>3, SeqGrow
      <3>3. t = r \o u
        BY <3>1
      <3> HIDE DEF T, u
      <3>4. \A i \in 1..(Len(r) + Len(u)) :
              (r \o u)[i] = IF i <= Len(r) THEN r[i] ELSE u[i - Len(r)]
        BY <3>2, ConcatProperties
      <3>5. \A i \in 1..n : i \in 1..(Len(r) + Len(u)) /\ i <= Len(r)
        BY <1>3, <3>2
      <3>6. QED
        BY <3>3, <3>4, <3>5
    <2>4. QED
      BY <2>1, <2>2, <2>3 DEF r
  <1>6. QED
    BY <1>4, <1>5 DEF Alike

(* The operands left when the operator on top has taken its own. *)
Left == (Len(pTkStk) - 1) - InfixWeight[Last(pOpStk)]

LEMMA LeftNat ==
  ASSUME IInv, NEW S, Handling(S)
  PROVE  /\ Left \in Nat /\ Left <= Len(pTkStk)
         /\ Left = IF Last(pOpStk).syntax = "infix" THEN Len(pTkStk) - 2 ELSE Len(pTkStk) - 1
  <1>1. Len(pTkStk) \in Nat /\ 1 <= Len(pTkStk) /\ Last(pOpStk) \in Ops
    BY HandlingFacts
  <1>2. Last(pOpStk).syntax = "infix" => 2 <= Len(pTkStk)
    BY InfixFacts
  <1>3. InfixWeight[Last(pOpStk)] = IF Last(pOpStk).syntax = "infix" THEN 1 ELSE 0
    BY <1>1 DEF InfixWeight
  <1>4. QED
    BY <1>1, <1>2, <1>3 DEF Left

(* An assignment leaves parentheses and other assignments waiting. *)
LEMMA AssignWaits ==
  ASSUME IInv, NEW S, Handling(S), pc = "place", op.lex = "="
  PROVE  Last(pOpStk).lex \notin {"(", "="}
  <1> DEFINE o == Last(pOpStk)
  <1>1. o \in Ops /\ op \in InfixOps /\ pc # "end"
    <2>1. o \in Ops
      BY HandlingFacts
    <2>2. op \in InfixOps
      BY DEF IInv, Control, Close
    <2>3. QED
      BY <2>1, <2>2
  <1>2. WillHandle(op, o) /\ IsRightAssoc(op)
    BY <1>1 DEF Handling, IsRightAssoc
  <1>3. Precedence(o) < Precedence(op)
    BY <1>2 DEF WillHandle
  <1>4. Precedence(op) \in 1..11
    BY <1>1, Precedences
  <1>5. o.lex # "("
    <2>1. o.lex = "(" => Precedence(o) = 99
      BY <1>1, Precedences
    <2>2. QED
      BY <1>3, <1>4, <2>1
  <1>6. o.lex # "="
    <2>1. o.lex = "=" => o.syntax = "infix"
      BY <1>1, InfixSyntax
    <2>2. o.lex = "=" => Precedence(o) = 11
      BY <2>1 DEF Precedence, Compare
    <2>3. QED
      BY <1>3, <1>4, <2>2
  <1>7. QED
    BY <1>5, <1>6

(* What a handler has to leave behind. *)
LEMMA PoppedRooted ==
  ASSUME IInv, IInv', RInv, NEW S, Handling(S), Last(pOpStk).lex # "(",
         pOpStk' = Front(pOpStk), "unclosed" \in odd => "unclosed" \in odd',
         UNCHANGED <<lexemes, pc, isAfterAtom, paren, op>>,
         Same(cmpRegStk', cmpRegStk, Len(cmpRegStk) - 1), Alike(pTkStk, pTkStk', Left)
  PROVE  RInv'
  <1> DEFINE n == Len(pOpStk)
             o == Last(pOpStk)
  <1>1. /\ pc \in {"place", "end"} /\ isAfterAtom = TRUE /\ pOpStk # <<>> /\ pOpStk \in Seq(Ops)
        /\ o.lex # "("
    BY HandlingFacts
  <1>2. /\ n \in Nat /\ n # 0 /\ Len(pOpStk') = n - 1 /\ o = pOpStk[n]
        /\ \A i \in 1..n - 1 : pOpStk'[i] = pOpStk[i]
    BY <1>1, FrontFacts, StackTypes
  <1>3. n - 1 \in Nat /\ n \in 1..n /\ Same(pOpStk', pOpStk, n - 1)
    BY <1>2 DEF Same
  <1>4. Rooted'
    <2>1. SUFFICES ASSUME Whole PROVE \E pos2 : Standing(pos2)' /\ Recent(pos2)'
      BY DEF Rooted, Whole
    <2>2. PICK pos : Standing(pos) /\ Recent(pos)
      BY <2>1 DEF RInv, Rooted
    <2>3. Same(lexemes', lexemes, Len(lexemes))
      <3>1. Same(lexemes, lexemes, Len(lexemes))
        BY StackTypes, SameAll
      <3>2. QED
        BY <3>1
    <2>4. Within(pOpStk, cmpRegStk, n - 1, Left)
      <3>1. Left = (Len(pTkStk) - Atoms) - InfixWeight[pOpStk[n]]
        BY <1>1, <1>2 DEF Left, Atoms
      <3>2. Left \in Nat
        BY LeftNat
      <3>3. \A k \in 1..n - 1 :
              LeftOf(pOpStk, cmpRegStk, k) <= (Len(pTkStk) - Atoms) - InfixWeight[pOpStk[n]]
        BY <2>1, LeftNow
      <3>4. QED
        BY <3>1, <3>2, <3>3 DEF Within
    <2>5. PICK pos2 : Rooting(pOpStk', cmpRegStk', pTkStk', lexemes', pos2, n - 1)
      BY <1>3, <2>1, <2>2, <2>3, <2>4, Carried
    <2>6. Standing(pos2)'
      BY <1>2, <2>5 DEF Standing
    <2>7. Recent(pos2)'
      <3>1. ASSUME pc = "place", op.lex = ")", NEW b \in 2..Len(lexemes) - 1,
                   LvAt(lexemes, b, Len(lexemes) - 1), lexemes[b - 1] = "("
            PROVE  FALSE
        <4>1. NamedFrom(pos, b)
          BY <2>2, <3>1 DEF Recent
        <4>2. pos[n] = b - 1
          BY <1>2, <4>1 DEF NamedFrom, AtTop
        <4>3. lexemes[pos[n]] = pOpStk[n].lex
          BY <1>3, <2>2 DEF Standing, Rooting
        <4>4. QED
          BY <1>1, <1>2, <3>1, <4>2, <4>3
      <3>2. pc' \in {"place", "end"}
        BY <1>1
      <3>3. QED
        BY <3>1, <3>2 DEF Recent
    <2>8. QED
      BY <2>6, <2>7
  <1>5. Pending'
    <2>1. ASSUME pc = "place", op.lex = "=", Legal(lexemes, Len(lexemes)) PROVE FALSE
      <3>1. Last(pOpStk).lex \in {"(", "="}
        BY <1>1, <2>1 DEF RInv, Pending
      <3>2. QED
        BY <2>1, <3>1, AssignWaits
    <2>2. QED
      BY <2>1 DEF Pending
  <1>6. LastLex' /\ Opened' /\ Refused'
    BY <1>1 DEF RInv, LastLex, Opened, Refused
  <1>7. QED
    BY <1>4, <1>5, <1>6 DEF RInv

LEMMA FramesSame ==
  ASSUME IInv
  PROVE  /\ Same(cmpRegStk, cmpRegStk, Len(cmpRegStk) - 1)
         /\ \A v \in Nat : Same(SetTop(cmpRegStk, v), cmpRegStk, Len(cmpRegStk) - 1)
         /\ Same(Front(cmpRegStk), cmpRegStk, Len(cmpRegStk) - 1)
  <1> DEFINE S == Nat
             d == Len(cmpRegStk) - 1
  <1>1. cmpRegStk \in Seq(S) /\ cmpRegStk # <<>> /\ Len(cmpRegStk) \in Nat
    BY StackTypes
  <1>2. Same(cmpRegStk, cmpRegStk, d)
    BY StackTypes, SameAll
  <1>3. d \in Nat /\ d <= Len(cmpRegStk) /\ d <= d
    BY <1>1, <1>2 DEF Same
  <1> HIDE DEF S
  <1>4. ASSUME NEW v \in S PROVE Same(SetTop(cmpRegStk, v), cmpRegStk, d)
    <2>1. /\ Len(SetTop(cmpRegStk, v)) = Len(cmpRegStk)
          /\ \A i \in 1..d : SetTop(cmpRegStk, v)[i] = cmpRegStk[i]
      BY <1>1, SetTopFacts
    <2>2. QED
      BY <1>3, <2>1 DEF Same
  <1>5. Same(Front(cmpRegStk), cmpRegStk, d)
    <2>1. Len(Front(cmpRegStk)) = d /\ \A i \in 1..d : Front(cmpRegStk)[i] = cmpRegStk[i]
      BY <1>1, FrontFacts
    <2> HIDE DEF d
    <2>2. QED
      BY <1>3, <2>1 DEF Same
  <1>6. QED
    BY <1>2, <1>4, <1>5 DEF S

LEMMA HandlePrefixRooted ==
  IInv /\ IInv' /\ RInv /\ HandlePrefix => RInv'
  <1> SUFFICES ASSUME IInv, IInv', RInv, HandlePrefix PROVE RInv'
    OBVIOUS
  <1>1. /\ Handling(Prefix) /\ Last(pOpStk).syntax = "prefix" /\ pOpStk' = Front(pOpStk)
        /\ \E x : pTkStk' = Append(SubSeq(pTkStk, 1, Len(pTkStk) - 1), x)
        /\ UNCHANGED <<lexemes, pc, isAfterAtom, paren, cmpRegStk, op, odd>>
    BY DEF HandlePrefix, Push, Fixed, chains
  <1>2. Last(pOpStk).lex \in Prefix
    BY <1>1, HandlingFacts
  <1>3. Last(pOpStk).lex # "("
    BY <1>2, Apart
  <1>4. Left \in Nat /\ Left <= Len(pTkStk) /\ Left = Len(pTkStk) - 1
    BY <1>1, LeftNat
  <1>5. Alike(pTkStk, pTkStk', Left)
    BY <1>1, <1>4, StackTypes, AlikeTaken
  <1>6. Same(cmpRegStk', cmpRegStk, Len(cmpRegStk) - 1)
    BY <1>1, FramesSame
  <1>7. QED
    BY <1>1, <1>3, <1>5, <1>6, PoppedRooted

LEMMA HandleArithRooted ==
  IInv /\ IInv' /\ RInv /\ HandleArith => RInv'
  <1> SUFFICES ASSUME IInv, IInv', RInv, HandleArith PROVE RInv'
    OBVIOUS
  <1>1. /\ Handling({"*", "-"}) /\ Last(pOpStk).syntax = "infix" /\ pOpStk' = Front(pOpStk)
        /\ \E x : pTkStk' = Append(SubSeq(pTkStk, 1, Len(pTkStk) - 2), x)
        /\ UNCHANGED <<lexemes, pc, isAfterAtom, paren, cmpRegStk, op, odd>>
    BY DEF HandleArith, Push, Fixed, chains
  <1>2. Last(pOpStk).lex \in {"*", "-"}
    BY <1>1, HandlingFacts
  <1>3. Last(pOpStk).lex # "("
    BY <1>2
  <1>4. Left \in Nat /\ Left <= Len(pTkStk) /\ Left = Len(pTkStk) - 2
    BY <1>1, LeftNat
  <1>5. Alike(pTkStk, pTkStk', Left)
    BY <1>1, <1>4, StackTypes, AlikeTaken
  <1>6. Same(cmpRegStk', cmpRegStk, Len(cmpRegStk) - 1)
    BY <1>1, FramesSame
  <1>7. QED
    BY <1>1, <1>3, <1>5, <1>6, PoppedRooted

LEMMA HandleLogicRooted ==
  IInv /\ IInv' /\ RInv /\ HandleLogic => RInv'
  <1> SUFFICES ASSUME IInv, IInv', RInv, HandleLogic PROVE RInv'
    OBVIOUS
  <1>1. /\ Handling(Logic) /\ pOpStk' = Front(pOpStk) /\ odd \subseteq odd'
        /\ \E x : pTkStk' = Append(SubSeq(pTkStk, 1, Len(pTkStk) - 2), x)
        /\ UNCHANGED <<lexemes, pc, isAfterAtom, paren, cmpRegStk, op>>
    BY DEF HandleLogic, Push, Fixed, chains
  <1>2. Last(pOpStk) \in Ops /\ Last(pOpStk).lex \in Logic
    BY <1>1, HandlingFacts
  <1>3. Last(pOpStk).lex # "(" /\ Last(pOpStk).syntax = "infix"
    BY <1>2, InfixSyntax DEF Logic
  <1>4. Left \in Nat /\ Left <= Len(pTkStk) /\ Left = Len(pTkStk) - 2
    BY <1>1, <1>3, LeftNat
  <1>5. Alike(pTkStk, pTkStk', Left)
    BY <1>1, <1>4, StackTypes, AlikeTaken
  <1>6. Same(cmpRegStk', cmpRegStk, Len(cmpRegStk) - 1)
    BY <1>1, FramesSame
  <1>7. QED
    BY <1>1, <1>3, <1>5, <1>6, PoppedRooted

LEMMA RegLNat ==
  ASSUME IInv, Handling(Compare)
  PROVE  RegL \in Nat
  <1>1. RegL \in 1..Len(Both.reg)
    BY CompareFacts
  <1>2. QED
    BY <1>1

LEMMA HandleCompareInChainRooted ==
  IInv /\ IInv' /\ RInv /\ HandleCompareInChain => RInv'
  <1> SUFFICES ASSUME IInv, IInv', RInv, HandleCompareInChain PROVE RInv'
    OBVIOUS
  <1>1. /\ Handling(Compare) /\ pOpStk' = Front(pOpStk)
        /\ UNCHANGED <<lexemes, pc, isAfterAtom, paren, op, odd>>
    BY DEF HandleCompareInChain, Fixed
  <1>2. /\ \/ \E x, y : pTkStk' = SubSeq(pTkStk, 1, Len(pTkStk) - 2) \o <<x, y>>
           \/ \E x : pTkStk' = Append(SubSeq(pTkStk, 1, Len(pTkStk) - 2), x)
        /\ cmpRegStk' = SetTop(cmpRegStk, RegL) \/ cmpRegStk' = cmpRegStk
    BY DEF HandleCompareInChain, Push
  <1>3. Last(pOpStk) \in Ops /\ Last(pOpStk).lex \in Compare
    BY <1>1, HandlingFacts
  <1>4. Last(pOpStk).lex # "(" /\ Last(pOpStk).syntax = "infix"
    BY <1>3, InfixSyntax DEF Compare
  <1>5. Left \in Nat /\ Left <= Len(pTkStk) /\ Left = Len(pTkStk) - 2
    BY <1>1, <1>4, LeftNat
  <1>6. Alike(pTkStk, pTkStk', Left)
    BY <1>2, <1>5, StackTypes, AlikeTaken
  <1>7. Same(cmpRegStk', cmpRegStk, Len(cmpRegStk) - 1)
    BY <1>1, <1>2, RegLNat, FramesSame
  <1>8. QED
    BY <1>1, <1>4, <1>6, <1>7, PoppedRooted

LEMMA HandleCompareLastRooted ==
  IInv /\ IInv' /\ RInv /\ HandleCompareLast => RInv'
  <1> SUFFICES ASSUME IInv, IInv', RInv, HandleCompareLast PROVE RInv'
    OBVIOUS
  <1>1. /\ Handling(Compare) /\ pOpStk' = Front(pOpStk) /\ odd \subseteq odd'
        /\ cmpRegStk' = SetTop(cmpRegStk, 0)
        /\ UNCHANGED <<lexemes, pc, isAfterAtom, paren, op>>
    BY DEF HandleCompareLast, Fixed
  <1>2. \/ pTkStk' = SubSeq(pTkStk, 1, Len(pTkStk) - 2)
        \/ \E x : pTkStk' = Append(SubSeq(pTkStk, 1, Len(pTkStk) - 2), x)
    BY DEF HandleCompareLast, Push
  <1>3. Last(pOpStk) \in Ops /\ Last(pOpStk).lex \in Compare
    BY <1>1, HandlingFacts
  <1>4. Last(pOpStk).lex # "(" /\ Last(pOpStk).syntax = "infix"
    BY <1>3, InfixSyntax DEF Compare
  <1>5. Left \in Nat /\ Left <= Len(pTkStk) /\ Left = Len(pTkStk) - 2
    BY <1>1, <1>4, LeftNat
  <1>6. Alike(pTkStk, pTkStk', Left)
    BY <1>2, <1>5, StackTypes, AlikeTaken
  <1>7. Same(cmpRegStk', cmpRegStk, Len(cmpRegStk) - 1)
    BY <1>1, FramesSame
  <1>8. QED
    BY <1>1, <1>4, <1>6, <1>7, PoppedRooted

(* An assignment that is handled has its left operand below the right one, *)
(* and is refused only if that is not a name in parentheses.               *)
LEMMA HandleAssignRooted ==
  IInv /\ IInv' /\ RInv /\ HandleAssign => RInv'
  <1> SUFFICES ASSUME IInv, IInv', RInv, HandleAssign PROVE RInv'
    OBVIOUS
  <1>1. Handling({"="}) /\ UNCHANGED <<lexemes, isAfterAtom, paren, cmpRegStk, op, odd>>
    BY DEF HandleAssign, Fixed, chains
  <1>2. /\ Last(pOpStk) \in Ops /\ Last(pOpStk).lex = "=" /\ pOpStk # <<>>
        /\ isAfterAtom = TRUE /\ pc \in {"place", "end"}
    <2>1. /\ Last(pOpStk) \in Ops /\ pOpStk # <<>>
          /\ isAfterAtom = TRUE /\ pc \in {"place", "end"}
      BY <1>1, HandlingFacts
    <2>2. Last(pOpStk).lex \in {"="}
      BY <1>1 DEF Handling
    <2>3. QED
      BY <2>1, <2>2
  <1>3. Last(pOpStk).syntax = "infix"
    BY <1>2, InfixSyntax
  <1>4. CASE Lhs.isLValue
    <2>1. /\ pOpStk' = Front(pOpStk) /\ UNCHANGED pc
          /\ \E x : pTkStk' = Append(SubSeq(pTkStk, 1, Len(pTkStk) - 2), x)
      BY <1>4 DEF HandleAssign, Push
    <2>2. Left \in Nat /\ Left <= Len(pTkStk) /\ Left = Len(pTkStk) - 2
      BY <1>1, <1>3, LeftNat
    <2>3. Alike(pTkStk, pTkStk', Left)
      BY <2>1, <2>2, StackTypes, AlikeTaken
    <2>4. Same(cmpRegStk', cmpRegStk, Len(cmpRegStk) - 1)
      BY <1>1, FramesSame
    <2>5. QED
      BY <1>1, <1>2, <2>1, <2>3, <2>4, PoppedRooted
  <1>5. CASE ~Lhs.isLValue
    <2>1. pc' = "error" /\ pOpStk' = pOpStk
      BY <1>5 DEF HandleAssign
    <2>2. Refused'
      <3>1. CASE Whole
        <4> DEFINE n == Len(pOpStk)
                   m == Len(pTkStk) - 1
        <4>1. PICK pos : Standing(pos)
          BY <3>1 DEF RInv, Rooted
        <4>2. n \in Nat /\ n # 0 /\ pOpStk[n].lex = "="
          BY <1>2, StackTypes
        <4>3. n \in 1..n
          BY <4>2
        <4>4. Level(pOpStk, cmpRegStk, m, Waiting) /\ Waiting = FALSE
          <5>1. Level(pOpStk, cmpRegStk, Len(pTkStk) - Atoms, Waiting) /\ Atoms = 1
            BY <1>2, <3>1, LevelNow DEF Atoms
          <5>2. ASSUME pc = "place", op.lex \in Compare PROVE FALSE
            <6>1. op \in InfixOps /\ pc # "end"
              BY <5>2 DEF IInv, Control, Close, Compare
            <6>2. WillHandle(op, Last(pOpStk)) /\ ~IsRightAssoc(op)
              BY <1>1, <5>2, <6>1 DEF Handling, IsRightAssoc, Compare
            <6>3. Precedence(Last(pOpStk)) <= Precedence(op)
              BY <6>2 DEF WillHandle
            <6>4. Precedence(Last(pOpStk)) = 11
              BY <1>2, <1>3 DEF Precedence, Compare
            <6>5. Precedence(op) = 8
              BY <5>2, <6>1 DEF Precedence, Compare, InfixOps
            <6>6. QED
              BY <6>3, <6>4, <6>5
          <5>3. QED
            BY <5>1, <5>2 DEF Waiting
        <4>5. \A k \in 1..n : pOpStk[k].lex = "=" => Lone(pOpStk, k)
          BY <4>1 DEF Standing, Rooting
        <4>6. LeftOf(pOpStk, cmpRegStk, n) = m
          <5> HIDE DEF m
          <5>1. Level(pOpStk, cmpRegStk, m, FALSE)
            BY <4>4
          <5>2. QED
            BY <1>2, <4>2, <4>5, <5>1, LeftTop
        <4>7. /\ pos[n] \in 1..Len(lexemes) /\ lexemes[pos[n]] = "="
              /\ Legal(lexemes, pos[n]) => pTkStk[LeftOf(pOpStk, cmpRegStk, n)].isLValue
          BY <4>1, <4>2, <4>3 DEF Standing, Rooting
        <4>8. ~Legal(lexemes, pos[n])
          BY <1>5, <4>6, <4>7 DEF Lhs
        <4>9. Wrong(lexemes)
          BY <4>7, <4>8 DEF Wrong
        <4>10. QED
          BY <1>1, <4>9 DEF Refused
      <3>2. CASE ~Whole
        <4>1. pc = "end" /\ paren # 0
          BY <1>2, <3>2 DEF Whole
        <4>2. "unclosed" \in odd /\ Depth(lexemes, Len(lexemes)) # 0
          BY <4>1 DEF RInv, Opened
        <4>3. QED
          BY <1>1, <4>2 DEF Refused
      <3>3. QED
        BY <3>1, <3>2
    <2>3. QED
      BY <2>1, <2>2 DEF RInv, Rooted, Whole, LastLex, Pending, Opened
  <1>6. QED
    BY <1>4, <1>5

LEMMA EndRooted ==
  IInv /\ IInv' /\ RInv /\ End => RInv'
  <1> SUFFICES ASSUME End PROVE RInv'
    OBVIOUS
  <1>1. pc' = "done"
    BY DEF End
  <1>2. QED
    BY <1>1 DEF RInv, Rooted, Whole, LastLex, Pending, Opened, Refused

LEMMA StutterRooted ==
  IInv /\ IInv' /\ RInv /\ UNCHANGED vars => RInv'
  <1> SUFFICES ASSUME RInv, UNCHANGED vars PROVE RInv'
    OBVIOUS
  <1>1. UNCHANGED <<lexemes, pc, isAfterAtom, paren, pOpStk, pTkStk, cmpRegStk, op, odd>>
    BY DEF vars, parsing, chains
  <1>2. \A pos : Standing(pos) /\ Recent(pos) => Standing(pos)' /\ Recent(pos)'
    BY <1>1 DEF Standing, Recent, NamedFrom
  <1>3. Rooted'
    BY <1>1, <1>2 DEF RInv, Rooted, Whole
  <1>4. LastLex' /\ Pending' /\ Opened' /\ Refused'
    BY <1>1 DEF RInv, LastLex, Pending, Opened, Refused
  <1>5. QED
    BY <1>3, <1>4 DEF RInv

(* The right parenthesis of a name in parentheses makes it one as well. *)
LEMMA HandleParenRooted ==
  IInv /\ IInv' /\ RInv /\ HandleParen => RInv'
  <1> SUFFICES ASSUME IInv, IInv', RInv, HandleParen PROVE RInv'
    OBVIOUS
  <1>1. /\ Handling({"("}) /\ pOpStk' = Front(pOpStk)
        /\ IF pc = "place" THEN pc' = "read" /\ cmpRegStk' = Front(cmpRegStk)
                           ELSE UNCHANGED <<pc, cmpRegStk>>
        /\ UNCHANGED <<lexemes, isAfterAtom, paren, pTkStk, op, odd>>
    BY DEF HandleParen, FrameClosed, Fixed
  <1> DEFINE n == Len(pOpStk)
             o == Last(pOpStk)
             t == Len(lexemes)
  <1>2. /\ o \in Ops /\ pOpStk # <<>> /\ pOpStk \in Seq(Ops)
        /\ isAfterAtom = TRUE /\ pc \in {"place", "end"}
    BY <1>1, HandlingFacts
  <1>3. o.lex = "(" /\ o.syntax = "prefix"
    <2>1. o.lex \in {"("}
      BY <1>1 DEF Handling
    <2>2. "(" \notin Infix
      BY Apart
    <2>3. QED
      BY <1>2, <2>1, <2>2 DEF Ops, InfixOps, PrefixOps
  <1>4. /\ n \in Nat /\ n # 0 /\ Len(pOpStk') = n - 1 /\ o = pOpStk[n]
        /\ \A i \in 1..n - 1 : pOpStk'[i] = pOpStk[i]
    BY <1>1, <1>2, FrontFacts, StackTypes
  <1>5. n - 1 \in Nat /\ n \in 1..n /\ Same(pOpStk', pOpStk, n - 1)
    BY <1>4 DEF Same
  <1>6. Same(cmpRegStk', cmpRegStk, Len(cmpRegStk) - 1)
    BY <1>1, FramesSame
  <1>7. pc = "place" => op.lex = ")"
    <2>1. SUFFICES ASSUME pc = "place" PROVE op.lex = ")"
      OBVIOUS
    <2>2. op \in InfixOps \cup {Close} /\ WillHandle(op, o)
      BY <1>1, <2>1 DEF IInv, Control, Handling
    <2>3. ASSUME op \in InfixOps PROVE FALSE
      <3>1. Precedence(o) <= Precedence(op) \/ Precedence(o) < Precedence(op)
        BY <2>2 DEF WillHandle
      <3>2. Precedence(o) = 99 /\ Precedence(op) \in 1..11
        BY <1>2, <1>3, <2>3, Precedences
      <3>3. QED
        BY <3>1, <3>2
    <2>4. QED
      BY <2>2, <2>3 DEF Close
  <1>8. Rooted'
    <2>1. SUFFICES ASSUME Whole PROVE \E pos2 : Standing(pos2)' /\ Recent(pos2)'
      BY <1>1 DEF Rooted, Whole
    <2>2. PICK pos : Standing(pos) /\ Recent(pos)
      BY <2>1 DEF RInv, Rooted
    <2>3. Same(lexemes', lexemes, t) /\ t \in Nat
      <3>1. Same(lexemes, lexemes, t)
        BY StackTypes, SameAll
      <3>2. QED
        BY <1>1, <3>1, StackTypes
    <2>4. Within(pOpStk, cmpRegStk, n - 1, Left) /\ Alike(pTkStk, pTkStk', Left)
      <3>1. Left = (Len(pTkStk) - Atoms) - InfixWeight[pOpStk[n]]
        BY <1>2, <1>4 DEF Left, Atoms
      <3>2. Left \in Nat
        BY <1>1, LeftNat
      <3>3. \A k \in 1..n - 1 :
              LeftOf(pOpStk, cmpRegStk, k) <= (Len(pTkStk) - Atoms) - InfixWeight[pOpStk[n]]
        BY <2>1, LeftNow
      <3>4. QED
        BY <1>1, <3>1, <3>2, <3>3 DEF Within, Alike
    <2>5. PICK pos2 : /\ Rooting(pOpStk', cmpRegStk', pTkStk', lexemes', pos2, n - 1)
                      /\ \A k \in 1..n - 1 : pos2[k] = pos[k]
      BY <1>5, <1>6, <2>1, <2>2, <2>3, <2>4, Carried
    <2>6. Standing(pos2)'
      BY <1>4, <2>5 DEF Standing
    <2>7. Recent(pos2)'
      <3>1. ASSUME pc = "place", NEW b \in 1..t, LvAt(lexemes, b, t)
            PROVE  Last(pTkStk).isLValue /\ AtTop(pos2, n - 1, b)
        <4>1. lexemes[t] = ")"
          BY <1>7, <3>1 DEF RInv, LastLex
        <4>2. b \in Nat /\ b < t /\ lexemes[b] = "(" /\ LvAt(lexemes, b + 1, t - 1)
          BY <2>3, <3>1, <4>1, LvAtLast
        <4>3. b + 1 \in 2..t - 1 /\ (b + 1) - 1 = b
          <5>1. b + 1 <= t - 1
            <6>1. b + 1 \in Nat /\ t - 1 \in Nat
              BY <2>3, <4>2
            <6>2. QED
              BY <4>2, <6>1, LvAtEnds
          <5>2. QED
            BY <2>3, <3>1, <5>1
        <4>4. NamedFrom(pos, b + 1)
          <5>1. lexemes[(b + 1) - 1] = "("
            BY <4>2, <4>3
          <5>2. QED
            BY <1>7, <2>2, <3>1, <4>2, <4>3, <5>1 DEF Recent
        <4>5. pos[n] = b
          BY <1>4, <4>3, <4>4 DEF NamedFrom, AtTop
        <4>6. IF n = 1 THEN pos[n] = 1 ELSE pos[n - 1] = pos[n] - 1
          BY <1>3, <1>4, <1>5, <2>2 DEF Standing, Rooting
        <4>7. AtTop(pos, n - 1, b)
          BY <1>4, <4>5, <4>6 DEF AtTop
        <4>8. AtTop(pos2, n - 1, b)
          BY <1>5, <2>5, <4>7, AtTopSame
        <4>9. QED
          BY <4>4, <4>8 DEF NamedFrom
      <3>2. CASE pc = "place"
        <4>1. pc' = "read" /\ isAfterAtom' = TRUE
          BY <1>1, <1>2, <3>2
        <4>2. QED
          BY <1>1, <1>4, <3>1, <3>2, <4>1 DEF Recent, NamedFrom
      <3>3. CASE pc = "end"
        BY <1>1, <3>3 DEF Recent
      <3>4. QED
        BY <1>2, <3>2, <3>3
    <2>8. QED
      BY <2>6, <2>7
  <1>9. LastLex' /\ Pending' /\ Refused'
    BY <1>1, <1>2 DEF LastLex, Pending, Refused
  <1>10. Opened'
    BY <1>1, <1>2 DEF RInv, Opened
  <1>11. QED
    BY <1>8, <1>9, <1>10 DEF RInv

Levelled == Level(pOpStk, cmpRegStk, Len(pTkStk) - Atoms, Waiting)

LEMMA LevelledNow ==
  IInv /\ Whole => Levelled
  BY LevelNow DEF Levelled

(* The operator that has been read is the last to wait. *)
LEMMA PlaceRooted ==
  IInv /\ IInv' /\ RInv /\ Place => RInv'
  <1> SUFFICES ASSUME IInv, IInv', RInv, Place PROVE RInv'
    OBVIOUS
  <1>1. /\ pc = "place" /\ ~(pOpStk # <<>> /\ WillHandle(op, Last(pOpStk)))
        /\ pOpStk' = Append(pOpStk, op) /\ isAfterAtom' = FALSE /\ pc' = "read"
        /\ UNCHANGED <<lexemes, paren, cmpRegStk, op, odd>>
    BY DEF Place, Fixed, chains
  <1> DEFINE n == Len(pOpStk)
             t == Len(lexemes)
             q == Len(pTkStk)
             d == q - 1
  <1>2. op \in InfixOps /\ op \in Ops /\ op.syntax = "infix" /\ isAfterAtom = TRUE
    <2>1. op \in InfixOps
      BY <1>1, PlacedIsInfix
    <2>2. QED
      BY <1>1, <2>1 DEF InfixOps, Ops, IInv, Control
  <1>3. Whole /\ Atoms = 1 /\ Atoms' = 0 /\ Waiting' = FALSE /\ Whole'
    BY <1>1, <1>2 DEF Whole, Atoms, Waiting
  <1>4. PICK pos : Standing(pos)
    BY <1>3 DEF RInv, Rooted
  <1>5. /\ n \in Nat /\ pOpStk \in Seq(Ops) /\ q \in Nat /\ t \in Nat
        /\ pTkStk \in Seq(Operands(Len(run.reg)))
    BY StackTypes
  <1>6. d \in Nat
    BY <1>3, LeftNow
  <1>7. /\ Same(pOpStk', pOpStk, n) /\ pOpStk'[n + 1] = op /\ Len(pOpStk') = n + 1
    BY <1>1, <1>2, <1>5, AppendLast
  <1>8. Same(cmpRegStk', cmpRegStk, Len(cmpRegStk) - 1) /\ Same(lexemes', lexemes, t)
    <2>1. Same(lexemes, lexemes, t)
      BY StackTypes, SameAll
    <2>2. QED
      BY <1>1, <2>1, FramesSame
  <1>9. \/ pTkStk' = pTkStk
        \/ \E x : pTkStk' = Append(SubSeq(pTkStk, 1, d), x)
    BY DEF Place, Push
  <1>10. Alike(pTkStk, pTkStk', d) /\ Within(pOpStk, cmpRegStk, n, d)
    <2>1. Alike(pTkStk, pTkStk', d)
      <3>1. CASE pTkStk' = pTkStk
        BY <3>1 DEF Alike
      <3>2. CASE \E x : pTkStk' = Append(SubSeq(pTkStk, 1, d), x)
        <4>1. d <= q
          BY <1>5
        <4> HIDE DEF d
        <4>2. QED
          BY <1>5, <1>6, <3>2, <4>1, AlikeTaken
      <3>3. QED
        BY <1>9, <3>1, <3>2
    <2>2. Within(pOpStk, cmpRegStk, n, d)
      BY <1>3, <1>6, LeftNow DEF Within
    <2>3. QED
      BY <2>1, <2>2
  <1>11. PICK pos2 : Rooting(pOpStk', cmpRegStk', pTkStk', lexemes', pos2, n)
    <2> HIDE DEF d
    <2>1. QED
      BY <1>3, <1>4, <1>7, <1>8, <1>10, Carried
  <1>12. op.lex = "=" => Lone(pOpStk', n + 1)
    <2>1. SUFFICES ASSUME op.lex = "=", n # 0 PROVE pOpStk'[n].lex \in {"(", "="}
      <3>1. n = 0 => n + 1 = 1
        BY <1>5
      <3>2. (n + 1) - 1 = n
        BY <1>5
      <3>3. QED
        BY <3>1, <3>2 DEF Lone
    <2>2. n \in 1..n /\ pOpStk'[n] = pOpStk[n] /\ pOpStk # <<>>
      BY <1>5, <1>7, <2>1, EmptySeq DEF Same
    <2>3. pOpStk[n] \in Ops /\ Last(pOpStk) = pOpStk[n]
      BY <2>2, StackTypes
    <2>4. ~WillHandle(op, pOpStk[n]) /\ IsRightAssoc(op)
      BY <1>1, <2>1, <2>2, <2>3 DEF IsRightAssoc
    <2>5. ~(Precedence(pOpStk[n]) < Precedence(op))
      BY <2>4 DEF WillHandle
    <2>6. Precedence(op) = 11
      BY <1>2, <2>1 DEF Precedence, Compare
    <2>7. pOpStk[n].lex \notin {"(", "="} => Precedence(pOpStk[n]) \in 1..10
      BY <2>3, InputsAssumption DEF Precedence, Compare, Ops, InfixOps, PrefixOps, Prefix
    <2>8. QED
      BY <2>2, <2>5, <2>6, <2>7
  <1>13. ASSUME op.lex = "=", Legal(lexemes, t)
         PROVE  pTkStk'[LeftOf(pOpStk', cmpRegStk', n + 1)].isLValue
    <2> DEFINE ops == pOpStk'
               m == Len(pTkStk')
    <2>1. pTkStk' = pTkStk
      BY <1>13 DEF Place, Logic
    <2>2. Last(pTkStk).isLValue
      BY <1>1, <1>13 DEF RInv, Pending
    <2>3. Level(ops, cmpRegStk', m, FALSE)
      <3>1. Level(pOpStk', cmpRegStk', Len(pTkStk') - Atoms', Waiting')
        <4>1. IInv' /\ Whole'
          BY <1>3
        <4>2. Levelled'
          BY <4>1, LevelledNow, PTL
        <4>3. QED
          BY <4>2 DEF Levelled
      <3>2. Len(pTkStk') - Atoms' = Len(pTkStk')
        BY <1>3, <1>5, <2>1
      <3>3. QED
        BY <1>3, <3>1, <3>2
    <2>4. Len(ops) = n + 1 /\ ops[Len(ops)].lex = "=" /\ ops # <<>>
      <3>1. n + 1 # 0
        BY <1>5
      <3>2. QED
        BY <1>7, <1>13, <3>1, EmptySeq
    <2>5. \A k \in 1..Len(ops) : ops[k].lex = "=" => Lone(ops, k)
      <3>1. \A k \in 1..n : ops[k].lex = "=" => Lone(ops, k)
        BY <1>11 DEF Rooting
      <3>2. \A k \in 1..n + 1 : k \in 1..n \/ k = n + 1
        BY <1>5
      <3>3. QED
        BY <1>12, <1>13, <2>4, <3>1, <3>2
    <2> HIDE DEF ops, m
    <2>6. LeftOf(ops, cmpRegStk', Len(ops)) = m
      BY <2>3, <2>4, <2>5, LeftTop
    <2>7. pTkStk'[m].isLValue
      <3>1. Last(pTkStk) = pTkStk[Len(pTkStk)]
        BY DEF Last
      <3>2. QED
        BY <2>1, <2>2, <3>1 DEF m
    <2>8. QED
      BY <2>4, <2>6, <2>7 DEF ops
  <1>14. NextAt(pOpStk', cmpRegStk', pTkStk', lexemes', pos2, n, t)
    <2>1. t # 0 /\ lexemes[t] = op.lex
      BY <1>1 DEF RInv, LastLex
    <2>2. t \in 1..Len(lexemes') /\ lexemes'[t] = op.lex
      BY <1>1, <1>5, <2>1
    <2>3. QED
      BY <1>1, <1>2, <1>7, <1>12, <1>13, <2>2 DEF NextAt
  <1>15. PICK pos3 : /\ Rooting(pOpStk', cmpRegStk', pTkStk', lexemes', pos3, n + 1)
                     /\ pos3[n + 1] = t
    BY <1>5, <1>11, <1>14, RootMore
  <1>16. Standing(pos3)'
    BY <1>7, <1>15 DEF Standing
  <1>17. Recent(pos3)'
    <2>1. AtTop(pos3, Len(pOpStk'), Len(lexemes') + 1)
      BY <1>1, <1>5, <1>7, <1>15 DEF AtTop
    <2>2. QED
      BY <1>1, <2>1 DEF Recent
  <1>18. Rooted'
    BY <1>16, <1>17 DEF Rooted
  <1>19. LastLex' /\ Pending' /\ Refused'
    BY <1>1 DEF LastLex, Pending, Refused
  <1>20. Opened'
    BY <1>1 DEF RInv, Opened
  <1>21. QED
    BY <1>18, <1>19, <1>20 DEF RInv

LEMMA RNextInv ==
  IInv /\ RInv /\ [Next]_vars => RInv'
  <1> SUFFICES ASSUME IInv, RInv, [Next]_vars PROVE RInv'
    OBVIOUS
  <1>0. IInv'
    BY NextInv
  <1>1. CASE Atom
    BY <1>0, <1>1, AtomRooted
  <1>2. CASE PrefixOp
    BY <1>0, <1>2, PrefixOpRooted
  <1>3. CASE NotAnAtom
    BY <1>0, <1>3, NotAnAtomRooted
  <1>4. CASE InfixOp
    BY <1>0, <1>4, InfixOpRooted
  <1>5. CASE CloseParen
    BY <1>0, <1>5, CloseParenRooted
  <1>6. CASE Stop
    BY <1>0, <1>6, StopRooted
  <1>7. CASE HandlePrefix
    BY <1>0, <1>7, HandlePrefixRooted
  <1>8. CASE HandleArith
    BY <1>0, <1>8, HandleArithRooted
  <1>9. CASE HandleLogic
    BY <1>0, <1>9, HandleLogicRooted
  <1>10. CASE HandleAssign
    BY <1>0, <1>10, HandleAssignRooted
  <1>11. CASE HandleCompareInChain
    BY <1>0, <1>11, HandleCompareInChainRooted
  <1>12. CASE HandleCompareLast
    BY <1>0, <1>12, HandleCompareLastRooted
  <1>13. CASE HandleParen
    BY <1>0, <1>13, HandleParenRooted
  <1>14. CASE Place
    BY <1>0, <1>14, PlaceRooted
  <1>15. CASE End
    BY <1>0, <1>15, EndRooted
  <1>16. CASE UNCHANGED vars
    BY <1>0, <1>16, StutterRooted
  <1>17. QED
    BY <1>1, <1>2, <1>3, <1>4, <1>5, <1>6, <1>7, <1>8, <1>9, <1>10, <1>11, <1>12,
       <1>13, <1>14, <1>15, <1>16, Zenon DEF Next, Handle

(* What the parser refuses is no expression of the language, nor a         *)
(* beginning of one that closing its parentheses would complete: a missing *)
(* operand is missed where an operator has just been read, and an operand  *)
(* that cannot be assigned to is none the manual lets stand there          *)
(* (exp.c:466-473, 631-635, handle.c:640-643).                             *)
THEOREM RefusalsRight ==
  Spec => []RefusedIsWrong
  <1>1. IInv /\ RInv => RefusedIsWrong
    <2> SUFFICES ASSUME IInv, RInv, pc = "error" PROVE ~WellFormed(Closed)
      BY DEF RefusedIsWrong
    <2> DEFINE t == Len(lexemes)
    <2>1. lexemes \in Seq(Lexemes) /\ t \in Nat /\ paren \in Nat
      BY StackTypes
    <2>2. CASE Wrong(lexemes)
      <3>1. /\ Closed \in Seq(Lexemes) /\ t <= Len(Closed)
            /\ \A j \in 1..t : Closed[j] = lexemes[j]
        <4>1. CASE Closed = lexemes
          BY <2>1, <4>1
        <4>2. CASE Closed # lexemes
          <5> DEFINE u == [i \in 1..paren |-> ")"]
          <5>1. Closed = lexemes \o u
            BY <4>2 DEF Closed
          <5>2. u \in Seq(Lexemes) /\ Len(u) = paren
            <6>1. ")" \in Lexemes
              BY DEF Lexemes
            <6>2. u \in [1..paren -> Lexemes]
              BY <6>1
            <6>3. QED
              BY <2>1, <6>2
          <5> HIDE DEF u
          <5>3. /\ lexemes \o u \in Seq(Lexemes) /\ Len(lexemes \o u) = t + Len(u)
                /\ \A j \in 1..t + Len(u) :
                     (lexemes \o u)[j] = IF j <= t THEN lexemes[j] ELSE u[j - t]
            BY <2>1, <5>2, ConcatProperties
          <5>4. t <= t + Len(u) /\ \A j \in 1..t : j \in 1..t + Len(u) /\ j <= t
            BY <2>1, <5>2
          <5>5. QED
            BY <5>1, <5>3, <5>4
        <4>3. QED
          BY <4>1, <4>2
      <3>2. QED
        BY <2>1, <2>2, <3>1, WrongStays
    <2>3. CASE "unclosed" \in odd /\ Depth(lexemes, t) # 0
      <3>1. Closed = lexemes
        BY <2>3 DEF Closed
      <3>2. ASSUME WellFormed(lexemes) PROVE FALSE
        <4>1. Sound(lexemes)
          BY <2>1, <3>2, WellFormedSound
        <4>2. QED
          BY <2>3, <4>1 DEF Sound, Balanced
      <3>3. QED
        BY <3>1, <3>2
    <2>4. QED
      BY <2>2, <2>3 DEF RInv, Refused
  <1>2. Init => RInv
    BY RInitInv
  <1>3. IInv /\ RInv /\ [Next]_vars => RInv'
    BY RNextInv
  <1>4. QED
    BY <1>1, <1>2, <1>3, Agreement, PTL DEF Spec
=============================================================================
