---------------------------- MODULE FramesProofs ----------------------------
(***************************************************************************)
(* Proofs that the frames of a compiled program keep their layout and that *)
(* its variables are found where lexical scoping puts them, for stacks,    *)
(* scope chains and variables of any size.                                 *)
(***************************************************************************)
EXTENDS FramesInv, SequenceTheorems, TLAPS

-----------------------------------------------------------------------------
(* The scope chain: what a step does to it when it opens, leaves or grows a *)
(* scope.                                                                   *)

\* The step keeps of scopes 1..n what never changes while they are open.
Keeps(n) ==
  \A k \in 1..n :
    /\ scopes'[k].kind = scopes[k].kind /\ scopes'[k].base = scopes[k].base
    /\ scopes'[k].parent = scopes[k].parent /\ scopes'[k].anc = scopes[k].anc
    /\ scopes'[k].frameScope = scopes[k].frameScope
    /\ scopes'[k].func = scopes[k].func /\ scopes'[k].loop = scopes[k].loop
    /\ scopes'[k].args = scopes[k].args /\ scopes'[k].saves = scopes[k].saves
    /\ scopes'[k].ret = scopes[k].ret

LEMMA CurNat ==
  ASSUME TypeOK
  PROVE  cur \in Nat \ {0} /\ \A k \in 1..cur : scopes[k] \in Scope
  BY DEF TypeOK, cur

LEMMA ScopeFields ==
  ASSUME NEW s \in Scope
  PROVE  /\ s.data \in Nat /\ s.arrays \in Nat /\ s.last \in Nat
         /\ s.base \in Int /\ s.parent \in Nat
         /\ s.frameScope \in Nat /\ s.func \in Nat /\ s.loop \in Nat
         /\ s.args \in Nat /\ s.saves \in Nat /\ s.ret \in Nat
         /\ s.anc \in SUBSET Nat
  BY DEF Scope

LEMMA DropFacts ==
  ASSUME TypeOK, NEW n \in 1..cur, scopes' = SubSeq(scopes, 1, n)
  PROVE  /\ scopes' \in Seq(Scope) /\ scopes' # <<>> /\ cur' = n
         /\ \A k \in 1..n : scopes'[k] = scopes[k]
         /\ Keeps(n)
  <1>1. /\ scopes' \in Seq(Scope) /\ scopes' # <<>> /\ cur' = n
        /\ \A k \in 1..n : scopes'[k] = scopes[k]
    BY DEF cur, TypeOK
  <1>2. QED
    BY <1>1 DEF Keeps

LEMMA PushFacts ==
  ASSUME TypeOK, NEW s \in Scope, scopes' = Append(scopes, s)
  PROVE  /\ scopes' \in Seq(Scope) /\ scopes' # <<>> /\ cur' = cur + 1
         /\ \A k \in 1..cur : scopes'[k] = scopes[k]
         /\ scopes'[cur + 1] = s
         /\ Keeps(cur)
  <1>1. /\ scopes' \in Seq(Scope) /\ scopes' # <<>> /\ cur' = cur + 1
        /\ \A k \in 1..cur : scopes'[k] = scopes[k]
        /\ scopes'[cur + 1] = s
    BY DEF cur, TypeOK
  <1>2. QED
    BY <1>1 DEF Keeps

\* Scope s has been opened as scope number t.
Grown(s, t) ==
  /\ cur' = t /\ Keeps(cur) /\ scopes'[t] = s
  /\ \A k \in 1..cur : scopes'[k] = scopes[k]

\* The fields of a scope that never change while it is open.
SameScope(s, r) ==
  /\ s.kind = r.kind /\ s.base = r.base /\ s.parent = r.parent
  /\ s.anc = r.anc /\ s.frameScope = r.frameScope
  /\ s.func = r.func /\ s.loop = r.loop
  /\ s.args = r.args /\ s.saves = r.saves /\ s.ret = r.ret

\* The scope chain q with s for scope n.
LEMMA EditFacts ==
  ASSUME NEW q \in Seq(Scope), NEW n \in 1..Len(q), NEW s \in Scope,
         NEW r, r = [q EXCEPT ![n] = s]
  PROVE  /\ r \in Seq(Scope) /\ Len(r) = Len(q) /\ r[n] = s
         /\ \A k \in 1..Len(q) : k # n => r[k] = q[k]
  OBVIOUS

LEMMA DataFacts ==
  ASSUME TypeOK, NEW s \in Scope, SameScope(s, scopes[cur]),
         scopes' = [scopes EXCEPT ![cur] = s]
  PROVE  /\ scopes' \in Seq(Scope) /\ scopes' # <<>> /\ cur' = cur
         /\ \A k \in 1..cur - 1 : scopes'[k] = scopes[k]
         /\ scopes'[cur] = s
         /\ Keeps(cur)
  <1>1. scopes \in Seq(Scope) /\ cur \in 1..Len(scopes) /\ cur = Len(scopes)
    BY DEF TypeOK, cur
  <1>2. /\ scopes' \in Seq(Scope) /\ Len(scopes') = cur
        /\ \A k \in 1..cur : k # cur => scopes'[k] = scopes[k]
        /\ scopes'[cur] = s
    BY <1>1, EditFacts
  <1>3. Keeps(cur)
    BY <1>2 DEF Keeps, SameScope
  <1>4. cur' = cur /\ scopes' # <<>>
    <2>1. cur' = cur
      BY <1>2 DEF cur
    <2>2. Len(scopes') # 0
      BY <1>1, <1>2
    <2>3. QED
      BY <2>1, <2>2
  <1>5. \A k \in 1..cur - 1 : scopes'[k] = scopes[k]
    BY <1>1, <1>2
  <1>6. QED
    BY <1>2, <1>3, <1>4, <1>5

LEMMA KeepsChain ==
  ASSUME TypeOK, ChainOK, AncestorsOK, NEW n \in 1..cur, Keeps(n)
  PROVE  /\ GlobalOK(scopes[1])'
         /\ \A k \in 2..n : ChildOK(k)'
         /\ \A k \in 1..n : AncestryOK(k)'
  <1>1. cur \in Nat /\ n \in Nat /\ n <= cur
    BY CurNat
  <1>2. GlobalOK(scopes[1])'
    BY <1>1 DEF ChainOK, GlobalOK, Keeps
  <1>3. ASSUME NEW k \in 2..n
        PROVE ChildOK(k)'
    <2>1. ChildOK(k) /\ Parent(k) \in 1..n /\ k \in 1..n
      BY <1>1 DEF ChainOK, ChildOK
    <2>2. QED
      BY <2>1 DEF ChildOK, Parent, HasLink, Keeps
  <1>4. ASSUME NEW k \in 1..n
        PROVE AncestryOK(k)'
    <2>1. AncestryOK(k)
      BY <1>1 DEF AncestorsOK
    <2>2. \A d \in scopes[k].anc : d \in 1..n
      BY <1>1, <2>1 DEF AncestryOK
    <2>3. scopes[k].frameScope # 0 =>
            scopes[k].frameScope \in 1..n /\ Parent(scopes[k].frameScope) \in 1..n
      <3> DEFINE f == scopes[k].frameScope
      <3>1. CASE f = 0
        BY <3>1
      <3>2. CASE f # 0
        <4>1. f \in 2..n
          BY <1>1, <2>1, <3>2 DEF AncestryOK
        <4>2. ChildOK(f)
          BY <1>1, <4>1 DEF ChainOK
        <4>3. QED
          BY <1>1, <4>1, <4>2 DEF ChildOK
      <3>3. QED
        BY <3>1, <3>2
    <2>4. scopes[k].loop # 0 => scopes[k].loop \in 1..n
      BY <2>1, <2>2 DEF AncestryOK
    <2>5. QED
      BY <2>1, <2>2, <2>3, <2>4 DEF AncestryOK, Parent, HasLink, Keeps
  <1>5. QED
    BY <1>2, <1>3, <1>4

\* s is a scope opened in scope p, to be scope number t.
IsChild(s, p, t) ==
  /\ s.parent = p /\ s.kind \in {"block", "loop", "func"}
  /\ s.kind # "func" => p = t - 1
  /\ s.anc = scopes[p].anc \cup {t}
  /\ s.frameScope = IF s.kind \in {"loop", "func"}
                      THEN t ELSE scopes[p].frameScope
  /\ s.func = IF s.kind = "func" THEN t ELSE scopes[p].func
  /\ s.loop = CASE s.kind = "loop" -> t
                [] s.kind = "func" -> 0
                [] OTHER -> scopes[p].loop

LEMMA PushKeepsChain ==
  ASSUME TypeOK, ChainOK, AncestorsOK, NEW p \in 1..cur, NEW s \in Scope,
         NEW t, t = cur + 1, IsChild(s, p, t), Grown(s, t)
  PROVE  ChainOK' /\ AncestorsOK'
  <1>1. /\ cur' = t /\ Keeps(cur) /\ scopes'[t] = s
        /\ \A k \in 1..cur : scopes'[k] = scopes[k]
    BY DEF Grown
  <1>2. cur \in Nat \ {0} /\ t \in Nat
    BY CurNat
  <1>3. /\ GlobalOK(scopes[1])'
        /\ \A k \in 2..cur : ChildOK(k)'
        /\ \A k \in 1..cur : AncestryOK(k)'
    BY <1>1, <1>2, KeepsChain
  <1>p. scopes'[p] = scopes[p] /\ p \in 1..t - 1
    BY <1>1, <1>2
  <1>4. ChildOK(t)'
    BY <1>1, <1>2, <1>p DEF ChildOK, Parent, HasLink, IsChild
  <1>5. AncestryOK(t)'
    <2>1. AncestryOK(p)
      BY <1>3 DEF AncestorsOK
    <2>2. scopes[p].anc \subseteq 1..p /\ p \in scopes[p].anc
      BY <2>1 DEF AncestryOK
    <2>a. \A d \in scopes[p].anc : d \in 1..cur /\ scopes'[d] = scopes[d]
      BY <1>1, <1>2, <2>2
    <2>3. CASE s.kind = "block"
      <3>1. /\ scopes'[t].frameScope = scopes[p].frameScope
            /\ scopes'[t].anc = scopes[p].anc \cup {t}
            /\ scopes'[t].func = scopes[p].func
            /\ scopes'[t].loop = scopes[p].loop
        BY <1>1, <2>3 DEF IsChild
      <3>2. AncestryOK(p)'
        BY <1>3
      <3>3. QED
        BY <1>1, <1>2, <1>p, <2>2, <2>a, <3>1, <3>2 DEF AncestryOK, HasLink, Parent
    <2>4. CASE s.kind \in {"loop", "func"}
      <3>1. /\ scopes'[t].frameScope = t /\ scopes'[t].parent = p
            /\ scopes'[t].anc = scopes[p].anc \cup {t}
            /\ scopes'[t].func \in {t, scopes[p].func}
            /\ scopes'[t].loop \in {0, t}
            /\ scopes'[t].loop = t => scopes'[t].kind = "loop"
            /\ scopes'[t].kind \in {"loop", "func"}
        BY <1>1, <1>2, <2>4 DEF IsChild
      <3>2. QED
        BY <1>1, <1>2, <1>p, <2>1, <2>2, <2>a, <3>1 DEF AncestryOK, HasLink, Parent
    <2>5. QED
      BY <1>1, <2>3, <2>4 DEF IsChild
  <1>6. QED
    BY <1>1, <1>2, <1>3, <1>4, <1>5 DEF ChainOK, AncestorsOK

-----------------------------------------------------------------------------
(* The stack. *)

LEMMA ClobberFacts ==
  ASSUME NEW m \in [Addr -> Word], NEW lo \in Int, NEW n \in Int
  PROVE  /\ Clobber(m, lo, n) \in [Addr -> Word]
         /\ \A x \in Addr : x >= lo + n => Clobber(m, lo, n)[x] = m[x]
  <1>1. \A x \in Addr : x \in Int
    BY FramesAssumption DEF Addr
  <1>2. Clobber(m, lo, n) \in [Addr -> Word]
    BY DEF Clobber, Word
  <1>3. ASSUME NEW x \in Addr, x >= lo + n
        PROVE  Clobber(m, lo, n)[x] = m[x]
    <2>1. ~(x < lo + n)
      BY <1>1, <1>3
    <2>2. QED
      BY <2>1 DEF Clobber
  <1>4. QED
    BY <1>2, <1>3

LEMMA FreedFacts ==
  ASSUME NEW m \in [Addr -> Word], NEW sp \in Word
  PROVE  /\ Freed(m, sp) \in [Addr -> Word]
         /\ sp \in Int =>
              \A x \in Addr : x >= sp => Freed(m, sp)[x] = m[x]
  <1>1. \A x \in Addr : x \in Int
    BY FramesAssumption DEF Addr
  <1>2. Freed(m, sp) \in [Addr -> Word]
    BY DEF Freed, Word
  <1>3. ASSUME sp \in Int, NEW x \in Addr, x >= sp
        PROVE  Freed(m, sp)[x] = m[x]
    <2>1. ~(x < sp) /\ sp # Garbage
      BY <1>1, <1>3, FramesAssumption
    <2>2. QED
      BY <2>1 DEF Freed
  <1>4. QED
    BY <1>2, <1>3

LEMMA StoreFacts ==
  ASSUME NEW m \in [Addr -> Word], NEW a \in Addr, NEW v \in Word
  PROVE  /\ Store(m, a, v) \in [Addr -> Word]
         /\ Store(m, a, v)[a] = v
         /\ \A x \in Addr : x >= a + WordSize => Store(m, a, v)[x] = m[x]
  <1>1. a \in Int /\ WordSize \in Nat \ {0}
    BY FramesAssumption DEF Addr
  <1>2. Clobber(m, a, WordSize) \in [Addr -> Word]
    BY <1>1, ClobberFacts
  <1>3. \A x \in Addr : x >= a + WordSize => Clobber(m, a, WordSize)[x] = m[x]
    BY <1>1, ClobberFacts
  <1>4. \A x \in Addr : x >= a + WordSize => x # a
    BY <1>1 DEF Addr
  <1>5. QED
    BY <1>2, <1>3, <1>4 DEF Store

LEMMA LoadType ==
  ASSUME TypeOK
  PROVE  \A a \in Word : Load(a) \in Word
  BY FramesAssumption DEF TypeOK, Load, Word

LEMMA KeepsFrames ==
  ASSUME TypeOK, ChainOK, AncestorsOK, NEW n \in 1..cur, Keeps(n)
  PROVE  /\ \A f \in 0..n : FrameOf(f)' = FrameOf(f)
         /\ \A k \in 1..n : Fp(k)' = Fp(k)
  <1>1. cur \in Nat /\ n \in Nat /\ n <= cur
    BY CurNat
  <1>2. ASSUME NEW f \in 0..n
        PROVE  FrameOf(f)' = FrameOf(f)
    BY <1>1 DEF FrameOf, Keeps
  <1>3. ASSUME NEW k \in 1..n
        PROVE  Fp(k)' = Fp(k)
    <2>1. scopes[k].frameScope \in 0..n
      BY <1>1 DEF AncestorsOK, AncestryOK
    <2>2. QED
      BY <1>1, <2>1 DEF Fp, FrameOf, Keeps
  <1>4. QED
    BY <1>2, <1>3

\* A step that keeps scopes 1..n and the stack from lo up, where lo is no
\* higher than any of them, keeps their saved links.
LEMMA KeepsLinks ==
  ASSUME TypeOK, ChainOK, AncestorsOK, SpacingOK, \A k \in 2..cur : LinkSaved(k),
         NEW n \in 1..cur, Keeps(n),
         NEW lo \in Int, \A a \in Addr : a >= lo => mem'[a] = mem[a],
         \A k \in 2..n : scopes[k].base >= lo
  PROVE  \A k \in 2..n : LinkSaved(k)'
  <1> SUFFICES ASSUME NEW k \in 2..n
               PROVE  LinkSaved(k)'
    OBVIOUS
  <1>1. /\ cur \in Nat /\ n \in Nat /\ n <= cur /\ k \in 1..n
        /\ k - 1 \in 1..n /\ k - 1 \in 1..cur /\ k \in 1..cur
    BY CurNat
  <1>2. ChildOK(k) /\ LinkSaved(k) /\ Parent(k) \in 1..n
    BY <1>1 DEF ChainOK, ChildOK
  <1>a. \A j \in 1..n : Fp(j)' = Fp(j)
    BY KeepsFrames
  <1>7. scopes'[k].kind = scopes[k].kind /\ scopes'[k].base = scopes[k].base
        /\ scopes'[k].parent = scopes[k].parent
    BY <1>1 DEF Keeps
  <1>b. ASSUME NEW p \in 1..n, p = scopes[k].parent
        PROVE  Fp(scopes[k].parent)' = Fp(scopes[k].parent)
    BY <1>a, <1>7, <1>b
  <1>3. /\ Fp(k - 1)' = Fp(k - 1)
        /\ Fp(scopes[k].parent)' = Fp(scopes[k].parent)
    BY <1>1, <1>2, <1>a, <1>b DEF Parent
  <1>4. scopes[k] \in Scope /\ scopes[k - 1] \in Scope
    BY <1>1, CurNat
  <1>5. scopes[k].base \in Addr /\ scopes[k].base >= lo
    <2>1. scopes[k].base <= 0 /\ Edge(k) >= -StackSize
      BY <1>1 DEF SpacingOK
    <2>2. QED
      BY <1>1, <1>4, <2>1, ScopeFields, FramesAssumption DEF Edge, Addr
  <1>6. scopes[k].kind = "func" =>
          scopes[k].base + WordSize \in Addr /\ scopes[k].base + WordSize >= lo
    <2>1. scopes[k - 1].base <= 0 /\ scopes[k].base = Edge(k - 1) - Below(scopes[k])
      BY <1>1 DEF SpacingOK
    <2>2. QED
      BY <1>1, <1>4, <1>5, <2>1, ScopeFields, FramesAssumption DEF Edge, Addr, Below
  <1>8. scopes[k].kind = "loop" => mem'[scopes'[k].base] = Fp(k - 1)'
    BY <1>2, <1>3, <1>5, <1>7 DEF LinkSaved
  <1>9. scopes[k].kind = "func" =>
          /\ mem'[scopes'[k].base] = Fp(scopes[k].parent)'
          /\ mem'[scopes'[k].base + WordSize] = Fp(k - 1)'
    BY <1>2, <1>3, <1>5, <1>6, <1>7 DEF LinkSaved
  <1>10. QED
    BY <1>7, <1>8, <1>9 DEF LinkSaved

\* The open scopes lie one below the other.
LEMMA BasesAboveEdge ==
  ASSUME TypeOK, SpacingOK, ScopesNest, cause = "none", NEW n \in 1..cur
  PROVE  \A k \in 1..n : scopes[k].base >= Edge(n) /\ Edge(k) >= Edge(n)
  <1> SUFFICES ASSUME NEW k \in 1..n
               PROVE  scopes[k].base >= Edge(n) /\ Edge(k) >= Edge(n)
    OBVIOUS
  <1>1. cur \in Nat /\ k \in 1..cur /\ scopes[k] \in Scope /\ scopes[n] \in Scope
    BY CurNat
  <1>2. k # n => scopes[n].base <= Edge(k)
    BY <1>1 DEF ScopesNest
  <1>3. QED
    BY <1>1, <1>2, ScopeFields DEF Edge

-----------------------------------------------------------------------------
(* Steps that leave scopes or change the data of the current one. *)

\* The step leaves the scopes below n and makes d the data of scope n.
Cut(n, d) ==
  /\ scopes' \in Seq(Scope) /\ scopes' # <<>> /\ cur' = n
  /\ Keeps(n)
  /\ \A k \in 1..n - 1 : scopes'[k].data = scopes[k].data
  /\ scopes'[n].data = d

LEMMA DropCut ==
  ASSUME TypeOK, NEW n \in 1..cur, scopes' = SubSeq(scopes, 1, n)
  PROVE  Cut(n, scopes[n].data)
  <1>1. cur \in Nat /\ n \in 1..n /\ \A k \in 1..n - 1 : k \in 1..n
    BY CurNat
  <1>2. QED
    BY <1>1, DropFacts DEF Cut

LEMMA DataCut ==
  ASSUME TypeOK, NEW s \in Scope, SameScope(s, scopes[cur]),
         scopes' = [scopes EXCEPT ![cur] = s]
  PROVE  Cut(cur, s.data)
  BY DataFacts DEF Cut

LEMMA CutChain ==
  ASSUME TypeOK, ChainOK, AncestorsOK, NEW n \in 1..cur, NEW d, Cut(n, d)
  PROVE  ChainOK' /\ AncestorsOK'
  BY KeepsChain DEF Cut, ChainOK, AncestorsOK

LEMMA CutSpacing ==
  ASSUME TypeOK, SpacingOK, ScopesNest, cause = "none",
         NEW n \in 1..cur, NEW d \in Nat, Cut(n, d),
         scopes[n].base - d >= -StackSize
  PROVE  /\ SpacingOK' /\ ScopesNest'
         /\ \A k \in 1..n - 1 : Edge(k)' = Edge(k)
         /\ Edge(n)' = scopes[n].base - d
         /\ Edge(cur)' = scopes[n].base - d
  <1>1. /\ cur \in Nat \ {0} /\ n \in 1..n /\ \A k \in 1..n : scopes[k] \in Scope
        /\ \A k \in 1..n : k \in 1..cur
    BY CurNat
  <1>2. \A k \in 1..n - 1 : Edge(k)' = Edge(k)
    BY <1>1 DEF Cut, Keeps, Edge
  <1>3. Edge(n)' = scopes[n].base - d
    BY <1>1 DEF Cut, Keeps, Edge
  <1>4. Edge(cur)' = scopes[n].base - d
    BY <1>1 DEF Cut, Keeps, Edge
  <1>5. \A k \in 1..n : Below(scopes[k])' = Below(scopes[k])
    BY <1>1 DEF Cut, Keeps, Below
  <1>6. SpacingOK'
    <2>1. ASSUME NEW k \in 1..n
          PROVE  scopes'[k].base <= 0 /\ Edge(k)' >= -StackSize
      <3>1. scopes[k].base <= 0 /\ Edge(k) >= -StackSize
        BY <1>1 DEF SpacingOK
      <3>2. scopes'[k].base = scopes[k].base
        BY DEF Cut, Keeps
      <3>3. CASE k = n
        BY <1>3, <3>1, <3>2, <3>3
      <3>4. CASE k # n
        BY <1>1, <1>2, <3>1, <3>2, <3>4
      <3>5. QED
        BY <3>3, <3>4
    <2>2. ASSUME NEW k \in 2..n
          PROVE  scopes'[k].base = Edge(k - 1)' - Below(scopes[k])'
      <3>1. k \in 1..n /\ k - 1 \in 1..n - 1 /\ k \in 2..cur
        BY <1>1
      <3>2. scopes[k].base = Edge(k - 1) - Below(scopes[k])
        BY <3>1 DEF SpacingOK
      <3>3. QED
        BY <1>2, <1>5, <3>1, <3>2 DEF Cut, Keeps
    <2>3. QED
      BY <2>1, <2>2 DEF SpacingOK, Cut
  <1>7. ScopesNest'
    <2>1. ASSUME NEW k \in 2..n, NEW j \in 1..k - 1
          PROVE  scopes'[k].base <= Edge(j)'
      <3>1. k \in 1..n /\ j \in 1..n - 1 /\ k \in 2..cur
        BY <1>1
      <3>2. scopes[k].base <= Edge(j)
        BY <3>1 DEF ScopesNest
      <3>3. QED
        BY <1>2, <3>1, <3>2 DEF Cut, Keeps
    <2>2. QED
      BY <2>1 DEF ScopesNest, Cut
  <1>8. QED
    BY <1>2, <1>3, <1>4, <1>6, <1>7

LEMMA PushSpacing ==
  ASSUME TypeOK, SpacingOK, ScopesNest, cause = "none",
         NEW s \in Scope, NEW t, t = cur + 1, Grown(s, t),
         s.data = 0, s.base = Edge(cur) - Below(s), s.base >= -StackSize
  PROVE  SpacingOK' /\ ScopesNest' /\ Edge(cur)' = s.base
  <1>1. /\ cur' = t /\ scopes'[t] = s
        /\ \A k \in 1..cur : scopes'[k] = scopes[k]
    BY DEF Grown
  <1>2. /\ cur \in Nat \ {0} /\ t \in Nat \ {0} /\ cur = t - 1
        /\ \A k \in 1..t : k = t \/ k \in 1..cur
        /\ \A k \in 2..t : k = t \/ k \in 2..cur
    BY CurNat
  <1>3. \A k \in 1..cur : Edge(k)' = Edge(k) /\ Below(scopes[k])' = Below(scopes[k])
    BY <1>1 DEF Edge, Below
  <1>4. s.base \in Int /\ Edge(t)' = s.base /\ Edge(cur)' = s.base
    BY <1>1, ScopeFields DEF Edge
  <1>5. Below(scopes[t])' = Below(s) /\ Below(s) \in Nat
    BY <1>1, ScopeFields, FramesAssumption DEF Below
  <1>6. \A k \in 1..cur : s.base <= Edge(k)
    <2>1. \A k \in 1..cur : Edge(k) >= Edge(cur) /\ Edge(k) \in Int
      BY <1>2, BasesAboveEdge, CurNat, ScopeFields DEF Edge
    <2>2. QED
      BY <1>2, <1>4, <1>5, <2>1
  <1>7. SpacingOK'
    <2>1. s.base <= 0
      <3>1. scopes[cur].base <= 0 /\ scopes[cur] \in Scope
        <4>1. cur \in 1..cur
          BY <1>2
        <4>2. QED
          BY <4>1, CurNat DEF SpacingOK
      <3>2. s.base <= Edge(cur) /\ Edge(cur) \in Int /\ Edge(cur) <= scopes[cur].base
        BY <1>2, <1>6, <3>1, ScopeFields DEF Edge
      <3>3. scopes[cur].base \in Int
        BY <3>1, ScopeFields
      <3>4. QED
        BY <1>4, <3>1, <3>2, <3>3
    <2>2. \A k \in 1..t : scopes'[k].base <= 0 /\ Edge(k)' >= -StackSize
      BY <1>1, <1>2, <1>3, <1>4, <2>1 DEF SpacingOK
    <2>3. ASSUME NEW k \in 2..t
          PROVE  scopes'[k].base = Edge(k - 1)' - Below(scopes[k])'
      <3>1. CASE k = t
        <4>1. cur \in 1..cur
          BY <1>2
        <4>2. Edge(t - 1)' = Edge(cur)
          BY <1>1, <1>2, <4>1 DEF Edge
        <4>3. QED
          BY <1>1, <1>5, <3>1, <4>2
      <3>2. CASE k \in 2..cur
        <4>1. k \in 1..cur /\ k - 1 \in 1..cur
          BY <1>2, <3>2
        <4>2. scopes[k].base = Edge(k - 1) - Below(scopes[k])
          BY <3>2 DEF SpacingOK
        <4>3. QED
          BY <1>1, <1>3, <4>1, <4>2
      <3>3. QED
        BY <1>2, <3>1, <3>2
    <2>4. QED
      BY <1>1, <2>2, <2>3 DEF SpacingOK
  <1>8. ScopesNest'
    <2>1. ASSUME NEW k \in 2..t, NEW j \in 1..k - 1
          PROVE  scopes'[k].base <= Edge(j)'
      <3>1. j \in 1..cur
        BY <1>2
      <3>2. CASE k = t
        BY <1>1, <1>3, <1>6, <3>1, <3>2
      <3>3. CASE k \in 2..cur
        <4>1. k \in 1..cur /\ scopes[k].base <= Edge(j)
          BY <1>2, <3>3 DEF ScopesNest
        <4>2. QED
          BY <1>1, <1>3, <3>1, <4>1
      <3>4. QED
        BY <1>2, <3>2, <3>3
    <2>2. QED
      BY <1>1, <2>1 DEF ScopesNest
  <1>9. QED
    BY <1>4, <1>7, <1>8

-----------------------------------------------------------------------------
(* The invariant of the scopes and the saved links, over a step that opens a *)
(* scope and over one that leaves some or changes the current one.           *)

Sound == ChainOK /\ AncestorsOK /\ SpacingOK /\ ScopesNest /\ SavedLinks

LEMMA CurFacts ==
  ASSUME TypeOK, Sound, cause = "none"
  PROVE  /\ cur \in Nat \ {0} /\ cur \in 1..cur /\ scopes[cur] \in Scope
         /\ Edge(cur) \in Int /\ Edge(cur) >= -StackSize /\ Edge(cur) <= 0
         /\ scopes[cur].base \in Int /\ scopes[cur].base <= 0
         /\ scopes[cur].base >= Edge(cur)
         /\ Fp(cur) \in Int
  <1>1. cur \in Nat \ {0} /\ cur \in 1..cur /\ scopes[cur] \in Scope
    BY CurNat
  <1>2. scopes[cur].base <= 0 /\ Edge(cur) >= -StackSize
    BY <1>1 DEF Sound, SpacingOK
  <1>3. scopes[cur].base \in Int /\ scopes[cur].data \in Nat
    BY <1>1, ScopeFields
  <1>4. Fp(cur) \in Int
    <2>1. scopes[cur].frameScope \in 0..cur
      BY <1>1 DEF Sound, AncestorsOK, AncestryOK
    <2>2. CASE scopes[cur].frameScope = 0
      BY <2>2 DEF Fp, FrameOf
    <2>3. CASE scopes[cur].frameScope # 0
      <3>1. scopes[cur].frameScope \in 1..cur
        BY <1>1, <2>1, <2>3
      <3>2. scopes[scopes[cur].frameScope].base \in Int
        BY <3>1, CurNat, ScopeFields
      <3>3. QED
        BY <2>3, <3>2 DEF Fp, FrameOf
    <2>4. QED
      BY <2>2, <2>3
  <1>5. QED
    BY <1>1, <1>2, <1>3, <1>4, FramesAssumption DEF Edge

LEMMA CutSound ==
  ASSUME TypeOK, Sound, cause = "none",
         NEW n \in 1..cur, NEW d \in Nat, Cut(n, d),
         scopes[n].base - d >= -StackSize,
         NEW lo \in Int, lo <= scopes[n].base,
         \A a \in Addr : a >= lo => mem'[a] = mem[a]
  PROVE  /\ Sound'
         /\ Edge(cur)' = scopes[n].base - d
         /\ Fp(cur)' = Fp(n)
  <1>1. ChainOK' /\ AncestorsOK'
    BY CutChain DEF Sound
  <1>2. SpacingOK' /\ ScopesNest' /\ Edge(cur)' = scopes[n].base - d
    BY CutSpacing DEF Sound
  <1>3. SavedLinks'
    <2>1. \A k \in 2..cur : LinkSaved(k)
      BY DEF Sound, SavedLinks
    <2>2. ASSUME NEW k \in 2..n
          PROVE  scopes[k].base >= lo
      <3>1. /\ k \in 1..cur /\ scopes[k] \in Scope /\ scopes[n] \in Scope
            /\ k # n => k \in 1..n - 1 /\ n \in 2..cur
        BY CurNat
      <3>2. k # n => scopes[n].base <= Edge(k)
        BY <3>1 DEF Sound, ScopesNest
      <3>3. QED
        BY <3>1, <3>2, ScopeFields DEF Edge
    <2>3. \A k \in 2..n : LinkSaved(k)'
      BY <2>1, <2>2, KeepsLinks DEF Sound, Cut
    <2>4. QED
      BY <2>3 DEF SavedLinks, Cut
  <1>4. Fp(cur)' = Fp(n)
    <2>1. n \in 1..n
      BY CurNat
    <2>2. Fp(n)' = Fp(n)
      BY <2>1, KeepsFrames DEF Sound, Cut
    <2>3. QED
      BY <2>2 DEF Cut, Fp
  <1>5. QED
    BY <1>1, <1>2, <1>3, <1>4 DEF Sound

LEMMA PushSound ==
  ASSUME TypeOK, Sound, cause = "none",
         NEW p \in 1..cur, NEW s \in Scope, NEW t, t = cur + 1,
         IsChild(s, p, t), scopes' = Append(scopes, s),
         s.data = 0, s.base = Edge(cur) - Below(s), s.base >= -StackSize,
         \A a \in Addr : a >= Edge(cur) => mem'[a] = mem[a],
         s.kind = "loop" => mem'[s.base] = Fp(cur),
         s.kind = "func" => mem'[s.base] = Fp(p)
                            /\ mem'[s.base + WordSize] = Fp(cur)
  PROVE  /\ Sound' /\ scopes' \in Seq(Scope) /\ scopes' # <<>>
         /\ Edge(cur)' = s.base
         /\ Fp(cur)' = IF s.kind = "block" THEN Fp(p) ELSE s.base
  <1>1. /\ cur' = t /\ scopes'[t] = s /\ Keeps(cur)
        /\ \A k \in 1..cur : scopes'[k] = scopes[k]
        /\ scopes' \in Seq(Scope) /\ scopes' # <<>>
    BY PushFacts
  <1>2. ChainOK' /\ AncestorsOK'
    BY <1>1, PushKeepsChain DEF Sound, Grown
  <1>3. SpacingOK' /\ ScopesNest' /\ Edge(cur)' = s.base
    BY <1>1, PushSpacing DEF Sound, Grown
  <1>4. /\ cur \in Nat \ {0} /\ t \in Nat \ {0} /\ cur = t - 1 /\ cur \in 1..cur
        /\ \A k \in 2..t : k = t \/ k \in 2..cur
        /\ Edge(cur) \in Int
    BY CurFacts
  <1>5. \A k \in 1..cur : Fp(k)' = Fp(k)
    BY <1>1, <1>4, KeepsFrames DEF Sound
  <1>6. SavedLinks'
    <2>1. \A k \in 2..cur : LinkSaved(k)
      BY DEF Sound, SavedLinks
    <2>2. \A k \in 2..cur : scopes[k].base >= Edge(cur)
      BY <1>4, BasesAboveEdge DEF Sound
    <2>3. \A k \in 2..cur : LinkSaved(k)'
      BY <1>1, <1>4, <2>1, <2>2, KeepsLinks DEF Sound
    <2>4. LinkSaved(t)'
      <3>1. scopes'[t].parent = p /\ Fp(t - 1)' = Fp(cur) /\ Fp(p)' = Fp(p)
        BY <1>1, <1>4, <1>5 DEF IsChild
      <3>2. Fp(scopes[t].parent)' = Fp(p)
        BY <3>1
      <3>3. QED
        BY <1>1, <3>1, <3>2 DEF LinkSaved
    <2>5. QED
      BY <1>1, <1>4, <2>3, <2>4 DEF SavedLinks
  <1>7. Fp(cur)' = IF s.kind = "block" THEN Fp(p) ELSE s.base
    <2>1. CASE s.kind = "block"
      <3>1. scopes'[t].frameScope = scopes'[p].frameScope
        BY <1>1, <2>1 DEF IsChild
      <3>2. Fp(t)' = Fp(p)'
        BY <3>1 DEF Fp
      <3>3. QED
        BY <1>1, <1>5, <2>1, <3>2
    <2>2. CASE s.kind \in {"loop", "func"}
      <3>1. scopes'[t].frameScope = t /\ t # 0
        BY <1>1, <1>4, <2>2 DEF IsChild
      <3>2. QED
        BY <1>1, <2>2, <3>1 DEF Fp, FrameOf
    <2>3. QED
      BY <2>1, <2>2 DEF IsChild
  <1>8. QED
    BY <1>1, <1>2, <1>3, <1>6, <1>7 DEF Sound

-----------------------------------------------------------------------------
(* One lemma for each step of a compiled program. *)

\* Where the next statement can start, the other phases say nothing.
LEMMA RunPhases ==
  ASSUME pc' = "run", cause' = "none" => FrameOK' /\ rsp' \in Int
  PROVE  PhasesOK'
  BY DEF PhasesOK, HopOK, ReturnOK, BreakOK, GotoOK, WalkOK, AdjustOK,
         ResolvedOK, AccessOK

\* The current scope and frame when a statement starts.
LEMMA RunFacts ==
  ASSUME IInv, Running
  PROVE  /\ TypeOK /\ Sound /\ cause = "none" /\ pc = "run"
         /\ rsp = Edge(cur) /\ rbp = Fp(cur) /\ rsp \in Int /\ rbp \in Int
  <1>1. TypeOK /\ Sound /\ cause = "none" /\ pc = "run" /\ FrameOK
    BY DEF IInv, Running, Sound, PhasesOK
  <1>2. QED
    BY <1>1, CurFacts DEF FrameOK

LEMMA OpenBlockStep ==
  ASSUME IInv, OpenBlock
  PROVE  IInv'
  <1>1. Running /\ scopes' = Append(scopes, Child("block", cur, rsp, Idle))
        /\ UNCHANGED <<mem, rsp, rbp, pc, loc, cause>>
    BY DEF OpenBlock, InBody, machine, Steady
  <1>2. /\ TypeOK /\ Sound /\ cause = "none" /\ pc = "run"
        /\ rsp = Edge(cur) /\ rbp = Fp(cur) /\ rsp \in Int /\ rbp \in Int
    BY <1>1, RunFacts
  <1>3. cur \in Nat \ {0} /\ cur \in 1..cur /\ scopes[cur] \in Scope
        /\ Edge(cur) >= -StackSize
    BY <1>2, CurFacts
  <1> DEFINE s == Child("block", cur, rsp, Idle)
  <1>4. /\ s \in Scope /\ s.kind = "block" /\ s.data = 0 /\ s.base = rsp
        /\ IsChild(s, cur, cur + 1) /\ Below(s) = 0
    <2>1. cur + 1 \in Nat /\ Idle.args = 0 /\ Idle.saves = 0 /\ Idle.ret = 0
      BY <1>3 DEF Idle
    <2>2. /\ s.kind = "block" /\ s.data = 0 /\ s.base = rsp /\ s.parent = cur
          /\ s.anc = scopes[cur].anc \cup {cur + 1}
          /\ s.frameScope = scopes[cur].frameScope
          /\ s.func = scopes[cur].func /\ s.loop = scopes[cur].loop
      BY DEF Child
    <2>3. s \in Scope
      BY <1>2, <1>3, <2>1, ScopeFields DEF Child, Scope
    <2> HIDE DEF s
    <2>4. QED
      BY <1>3, <2>2, <2>3 DEF IsChild, Below
  <1>5. /\ Sound' /\ scopes' \in Seq(Scope) /\ scopes' # <<>>
        /\ Edge(cur)' = s.base /\ Fp(cur)' = Fp(cur)
    <2> HIDE DEF s
    <2>1. s.base = Edge(cur) - Below(s) /\ s.base >= -StackSize
      BY <1>2, <1>3, <1>4
    <2>2. scopes' = Append(scopes, s)
      BY <1>1 DEF s
    <2>3. QED
      BY <1>1, <1>2, <1>3, <1>4, <2>1, <2>2, PushSound
  <1>6. TypeOK'
    BY <1>1, <1>2, <1>5 DEF TypeOK
  <1>7. FrameOK' /\ rsp' \in Int
    BY <1>1, <1>2, <1>4, <1>5 DEF FrameOK
  <1>8. PhasesOK'
    BY <1>1, <1>2, <1>7, RunPhases
  <1>9. QED
    BY <1>5, <1>6, <1>8 DEF IInv, Sound

\* A scope that is no func hangs off the scope below it on the stack.
LEMMA UnderFacts ==
  ASSUME TypeOK, Sound, cause = "none", currScope.kind \in {"block", "loop"}
  PROVE  /\ cur - 1 \in 1..cur /\ cur - 1 \in Nat /\ cur \in 2..cur
         /\ currScope.parent = cur - 1
         /\ scopes[cur - 1] \in Scope
         /\ Edge(cur - 1) = currScope.base + Below(currScope)
         /\ Edge(cur - 1) <= scopes[cur - 1].base /\ Edge(cur - 1) >= -StackSize
         /\ Edge(cur - 1) \in Int
         /\ Fp(cur) = IF currScope.kind = "loop"
                        THEN currScope.base ELSE Fp(cur - 1)
         /\ ChildOK(cur)
  <1>1. cur \in Nat \ {0} /\ cur \in 1..cur /\ scopes[cur] \in Scope
    BY CurFacts
  <1>2. cur # 1
    BY DEF Sound, ChainOK, GlobalOK, currScope
  <1>3. cur \in 2..cur /\ cur - 1 \in 1..cur /\ cur - 1 \in Nat
    BY <1>1, <1>2
  <1>4. ChildOK(cur)
    BY <1>3 DEF Sound, ChainOK
  <1>5. currScope.parent = cur - 1
    BY <1>4 DEF ChildOK, Parent, currScope
  <1>6. scopes[cur - 1] \in Scope
    BY <1>3, CurNat
  <1>7. /\ scopes[cur].base = Edge(cur - 1) - Below(scopes[cur])
        /\ Edge(cur - 1) >= -StackSize
    BY <1>3 DEF Sound, SpacingOK
  <1>8. Below(currScope) \in Nat /\ Edge(cur - 1) \in Int
        /\ Edge(cur - 1) <= scopes[cur - 1].base
    BY <1>1, <1>6, ScopeFields, FramesAssumption DEF Below, Edge, currScope
  <1>9. Edge(cur - 1) = currScope.base + Below(currScope)
    BY <1>1, <1>7, <1>8, ScopeFields DEF currScope
  <1>10. Fp(cur) = IF currScope.kind = "loop"
                     THEN currScope.base ELSE Fp(cur - 1)
    BY <1>1, <1>2, <1>4, <1>5 DEF ChildOK, Parent, HasLink, currScope, Fp, FrameOf
  <1>11. QED
    BY <1>3, <1>4, <1>5, <1>6, <1>7, <1>8, <1>9, <1>10

\* Leaving a block, with the stack above the scope under it as it was.
LEMMA LeaveBlock ==
  ASSUME TypeOK, Sound, cause = "none", currScope.kind = "block", Leave,
         NEW lo \in Int, lo <= Edge(cur - 1),
         \A a \in Addr : a >= lo => mem'[a] = mem[a]
  PROVE  /\ Sound' /\ scopes' \in Seq(Scope) /\ scopes' # <<>>
         /\ cur' = cur - 1 /\ Keeps(cur - 1)
         /\ Edge(cur)' = currScope.base /\ Fp(cur)' = Fp(cur)
  <1> DEFINE n == cur - 1
  <1>1. /\ n \in 1..cur /\ currScope.parent = n /\ scopes[n] \in Scope
        /\ Edge(n) = currScope.base + Below(currScope) /\ Edge(n) \in Int
        /\ Edge(n) <= scopes[n].base /\ Edge(n) >= -StackSize
        /\ Fp(cur) = Fp(n) /\ scopes[cur] \in Scope
    BY UnderFacts, CurNat DEF currScope
  <1>2. Below(currScope) = 0 /\ currScope.base \in Int
    BY <1>1, ScopeFields DEF Below, currScope
  <1>3. Cut(n, scopes[n].data)
    BY <1>1, DropCut DEF Leave
  <1>4. scopes[n].data \in Nat /\ scopes[n].base - scopes[n].data = Edge(n)
        /\ scopes[n].base \in Int
    BY <1>1, ScopeFields DEF Edge
  <1> HIDE DEF n
  <1>5. lo <= scopes[n].base
    BY <1>1, <1>4 DEF n
  <1>6. Sound' /\ Edge(cur)' = Edge(n) /\ Fp(cur)' = Fp(n)
    BY <1>1, <1>3, <1>4, <1>5, CutSound
  <1>7. QED
    BY <1>1, <1>2, <1>3, <1>6 DEF Cut, n

\* Leaving a loop with its frame in RBP.
LEMMA LeaveLoop ==
  ASSUME TypeOK, Sound, cause = "none", currScope.kind = "loop", Leave, PopFrame,
         rbp = Fp(cur)
  PROVE  /\ Sound' /\ scopes' \in Seq(Scope) /\ scopes' # <<>>
         /\ cur' = cur - 1 /\ Keeps(cur - 1)
         /\ mem' \in [Addr -> Word] /\ rsp' \in Int /\ rbp' \in Int
         /\ rsp' = Edge(cur)' /\ rbp' = Fp(cur)'
         /\ Fp(cur)' = Fp(cur - 1)
  <1> DEFINE n == cur - 1
  <1>1. /\ n \in 1..cur /\ currScope.parent = n /\ scopes[n] \in Scope
        /\ cur \in 2..cur /\ cur \in 1..cur
        /\ Edge(n) = currScope.base + Below(currScope) /\ Edge(n) \in Int
        /\ Edge(n) <= scopes[n].base /\ Edge(n) >= -StackSize
        /\ Fp(cur) = currScope.base /\ scopes[cur] \in Scope
    BY UnderFacts, CurNat DEF currScope
  <1>2. Below(currScope) = WordSize /\ currScope.base \in Int
    BY <1>1, ScopeFields DEF Below, currScope
  <1>3. Cut(n, scopes[n].data)
    BY <1>1, DropCut DEF Leave
  <1>4. scopes[n].data \in Nat /\ scopes[n].base - scopes[n].data = Edge(n)
        /\ scopes[n].base \in Int
    BY <1>1, ScopeFields DEF Edge
  <1> HIDE DEF n
  <1>5. rsp' = Edge(n)
    <2>1. rbp # Garbage
      BY <1>1, <1>2, FramesAssumption
    <2>2. QED
      BY <1>1, <1>2, <2>1 DEF PopFrame, Plus
  <1>6. rbp' = Fp(n)
    <2>1. LinkSaved(cur)
      BY <1>1 DEF Sound, SavedLinks
    <2>2. mem[currScope.base] = Fp(n)
      BY <2>1 DEF LinkSaved, currScope, n
    <2>3. currScope.base \in Addr
      <3>1. currScope.base <= 0 /\ currScope.base >= Edge(cur)
            /\ Edge(cur) >= -StackSize /\ Edge(cur) \in Int
        BY CurFacts DEF currScope
      <3>2. QED
        BY <1>2, <3>1, FramesAssumption DEF Addr
    <2>4. QED
      BY <1>1, <2>2, <2>3 DEF PopFrame, Load
  <1>7. /\ mem' \in [Addr -> Word]
        /\ \A a \in Addr : a >= Edge(n) => mem'[a] = mem[a]
    <2>1. Edge(n) \in Word /\ mem \in [Addr -> Word] /\ mem' = Freed(mem, Edge(n))
      BY <1>1, <1>5 DEF Word, TypeOK, PopFrame
    <2>2. QED
      BY <1>1, <2>1, FreedFacts
  <1>8. Sound' /\ Edge(cur)' = Edge(n) /\ Fp(cur)' = Fp(n)
    BY <1>1, <1>3, <1>4, <1>7, CutSound
  <1>9. Fp(cur)' \in Int
    <2>1. TypeOK => Fp(n) \in Int
      <3>1. scopes[n].frameScope \in 0..n
        BY <1>1 DEF Sound, AncestorsOK, AncestryOK
      <3>2. CASE scopes[n].frameScope = 0
        BY <3>2 DEF Fp, FrameOf
      <3>3. CASE scopes[n].frameScope # 0
        <4>1. scopes[n].frameScope \in 1..cur
          BY <1>1, <3>1, <3>3
        <4>2. scopes[scopes[n].frameScope].base \in Int
          BY <4>1, CurNat, ScopeFields
        <4>3. QED
          BY <3>3, <4>2 DEF Fp, FrameOf
      <3>4. QED
        BY <3>2, <3>3
    <2>2. QED
      BY <1>8, <2>1
  <1>10. QED
    BY <1>1, <1>3, <1>5, <1>6, <1>7, <1>8, <1>9 DEF Cut, n

LEMMA CloseBlockStep ==
  ASSUME IInv, CloseBlock
  PROVE  IInv'
  <1>1. /\ Running /\ currScope.kind = "block" /\ Leave
        /\ rsp' = rsp + DataSize(cur) /\ mem' = Freed(mem, rsp')
        /\ cause' = IF currScope.arrays = 0 THEN cause ELSE "array"
        /\ UNCHANGED <<rbp, pc, loc>>
    BY DEF CloseBlock, InBody
  <1>2. /\ TypeOK /\ Sound /\ cause = "none" /\ pc = "run"
        /\ rsp = Edge(cur) /\ rbp = Fp(cur) /\ rsp \in Int /\ rbp \in Int
    BY <1>1, RunFacts
  <1>3. /\ Edge(cur - 1) = currScope.base + Below(currScope)
        /\ Edge(cur - 1) \in Int /\ scopes[cur] \in Scope
    BY <1>1, <1>2, UnderFacts, CurFacts
  <1>4. /\ rsp' = currScope.base + currScope.arrays
        /\ rsp' \in Int /\ rsp' \in Word
        /\ currScope.base = Edge(cur - 1) /\ currScope.arrays \in Nat
    <2>1. Below(currScope) = 0
      BY <1>1 DEF Below
    <2>2. QED
      BY <1>1, <1>2, <1>3, <2>1, ScopeFields DEF Edge, DataSize, currScope, Word
  <1>5. /\ mem' \in [Addr -> Word]
        /\ \A a \in Addr : a >= rsp' => mem'[a] = mem[a]
    BY <1>1, <1>2, <1>4, FreedFacts DEF TypeOK
  <1>6. CASE currScope.arrays = 0
    <2>1. rsp' <= Edge(cur - 1) /\ rsp' = currScope.base /\ cause' = "none"
      BY <1>1, <1>2, <1>3, <1>4, <1>6
    <2>2. /\ Sound' /\ scopes' \in Seq(Scope) /\ scopes' # <<>>
          /\ Edge(cur)' = currScope.base /\ Fp(cur)' = Fp(cur)
      BY <1>1, <1>2, <1>4, <1>5, <2>1, LeaveBlock
    <2>3. TypeOK'
      BY <1>1, <1>2, <1>4, <1>5, <2>1, <2>2 DEF TypeOK
    <2>4. PhasesOK'
      BY <1>1, <1>2, <1>4, <2>1, <2>2, RunPhases DEF FrameOK
    <2>5. QED
      BY <2>2, <2>3, <2>4 DEF IInv, Sound
  <1>7. CASE currScope.arrays # 0
    <2>1. cur - 1 \in 1..cur /\ scopes' = SubSeq(scopes, 1, cur - 1)
      BY <1>1, <1>2, UnderFacts DEF Leave
    <2>2. Cut(cur - 1, scopes[cur - 1].data)
      BY <1>2, <2>1, DropCut
    <2>3. ChainOK' /\ AncestorsOK' /\ scopes' \in Seq(Scope) /\ scopes' # <<>>
      BY <1>2, <2>1, <2>2, CutChain DEF Cut, Sound
    <2>4. cause' = "array"
      BY <1>1, <1>7
    <2>5. TypeOK'
      BY <1>1, <1>2, <1>4, <1>5, <2>3, <2>4 DEF TypeOK
    <2>6. PhasesOK'
      BY <1>1, <1>2, <2>4, RunPhases
    <2>7. QED
      BY <2>3, <2>4, <2>5, <2>6 DEF IInv, ScopesNest, SavedLinks
  <1>8. QED
    BY <1>6, <1>7

LEMMA ExitLoopStep ==
  ASSUME IInv, ExitLoop
  PROVE  IInv'
  <1>1. /\ Running /\ currScope.kind = "loop" /\ Leave /\ PopFrame
        /\ UNCHANGED <<pc, loc, cause>>
    BY DEF ExitLoop, Steady
  <1>2. /\ TypeOK /\ Sound /\ cause = "none" /\ pc = "run" /\ rbp = Fp(cur)
    BY <1>1, RunFacts
  <1>3. /\ Sound' /\ scopes' \in Seq(Scope) /\ scopes' # <<>>
        /\ mem' \in [Addr -> Word] /\ rsp' \in Int /\ rbp' \in Int
        /\ rsp' = Edge(cur)' /\ rbp' = Fp(cur)'
    BY <1>1, <1>2, LeaveLoop
  <1>4. TypeOK'
    BY <1>1, <1>2, <1>3 DEF TypeOK, Word
  <1>5. PhasesOK'
    BY <1>1, <1>2, <1>3, RunPhases DEF FrameOK
  <1>6. QED
    BY <1>3, <1>4, <1>5 DEF IInv, Sound

\* A word stored below everything that is in use.
LEMMA StoreBelow ==
  ASSUME TypeOK, NEW a \in Addr, NEW v \in Word, NEW e \in Int, e >= a + WordSize
  PROVE  /\ Store(mem, a, v) \in [Addr -> Word]
         /\ Store(mem, a, v)[a] = v
         /\ \A x \in Addr : x >= e => Store(mem, a, v)[x] = mem[x]
  <1>1. mem \in [Addr -> Word] /\ a \in Int /\ WordSize \in Nat
        /\ \A x \in Addr : x \in Int
    BY FramesAssumption DEF TypeOK, Addr
  <1>2. \A x \in Addr : x >= e => x >= a + WordSize
    BY <1>1
  <1>3. QED
    BY <1>1, <1>2, StoreFacts

LEMMA OpenLoopStep ==
  ASSUME IInv, OpenLoop
  PROVE  IInv'
  <1> DEFINE b == rsp - WordSize
             s == Child("loop", cur, b, Idle)
  <1>1. /\ Running /\ Room(WordSize) /\ scopes' = Append(scopes, s)
        /\ mem' = Store(mem, b, rbp) /\ rsp' = b /\ rbp' = b
        /\ UNCHANGED <<pc, loc, cause>>
    BY DEF OpenLoop, InBody, Steady
  <1>2. /\ TypeOK /\ Sound /\ cause = "none" /\ pc = "run"
        /\ rsp = Edge(cur) /\ rbp = Fp(cur) /\ rsp \in Int /\ rbp \in Int
    BY <1>1, RunFacts
  <1>3. cur \in Nat \ {0} /\ cur \in 1..cur /\ scopes[cur] \in Scope
        /\ Edge(cur) <= 0
    BY <1>2, CurFacts
  <1>4. b \in Int /\ b >= -StackSize /\ b \in Addr /\ rbp \in Word /\ b \in Word
        /\ b + WordSize = rsp
    BY <1>1, <1>2, <1>3, FramesAssumption DEF Room, Addr, Word
  <1>5. /\ s \in Scope /\ s.kind = "loop" /\ s.data = 0 /\ s.base = b
        /\ IsChild(s, cur, cur + 1) /\ Below(s) = WordSize
    <2>1. cur + 1 \in Nat /\ Idle.args = 0 /\ Idle.saves = 0 /\ Idle.ret = 0
      BY <1>3 DEF Idle
    <2> HIDE DEF b
    <2>2. /\ s.kind = "loop" /\ s.data = 0 /\ s.base = b /\ s.parent = cur
          /\ s.anc = scopes[cur].anc \cup {cur + 1} /\ s.frameScope = cur + 1
          /\ s.func = scopes[cur].func /\ s.loop = cur + 1
      BY DEF Child
    <2>3. s \in Scope
      BY <1>3, <1>4, <2>1, ScopeFields DEF Child, Scope
    <2> HIDE DEF s
    <2>4. QED
      BY <1>3, <2>2, <2>3 DEF IsChild, Below
  <1>6. /\ mem' \in [Addr -> Word] /\ mem'[b] = rbp
        /\ \A a \in Addr : a >= Edge(cur) => mem'[a] = mem[a]
    <2>1. Edge(cur) >= b + WordSize /\ Edge(cur) \in Int
      BY <1>2, <1>4
    <2> HIDE DEF b, s
    <2>2. QED
      BY <1>1, <1>2, <1>4, <2>1, StoreBelow
  <1>7. /\ Sound' /\ scopes' \in Seq(Scope) /\ scopes' # <<>>
        /\ Edge(cur)' = b /\ Fp(cur)' = b
    <2>1. s.base = Edge(cur) - Below(s)
      BY <1>2, <1>5, FramesAssumption
    <2> HIDE DEF b, s
    <2>2. QED
      BY <1>1, <1>2, <1>3, <1>4, <1>5, <1>6, <2>1, PushSound
  <1> HIDE DEF b, s
  <1>8. TypeOK'
    BY <1>1, <1>2, <1>4, <1>6, <1>7 DEF TypeOK
  <1>9. FrameOK' /\ rsp' \in Int
    BY <1>1, <1>4, <1>7 DEF FrameOK
  <1>10. PhasesOK'
    BY <1>1, <1>2, <1>9, RunPhases
  <1>11. QED
    BY <1>7, <1>8, <1>10 DEF IInv, Sound

\* Changing the variables, the arrays or the part of the current scope, with RSP
\* and the stack to match.
LEMMA DataStep ==
  ASSUME TypeOK, Sound, cause = "none", NEW s \in Scope,
         SameScope(s, scopes[cur]), scopes' = [scopes EXCEPT ![cur] = s],
         scopes[cur].base - s.data >= -StackSize,
         \A a \in Addr : a >= scopes[cur].base => mem'[a] = mem[a]
  PROVE  /\ Sound' /\ scopes' \in Seq(Scope) /\ scopes' # <<>>
         /\ Edge(cur)' = scopes[cur].base - s.data /\ Fp(cur)' = Fp(cur)
  <1>1. Cut(cur, s.data) /\ s.data \in Nat
    BY DataCut, ScopeFields
  <1>2. cur \in 1..cur /\ scopes[cur].base \in Int
        /\ scopes[cur].base <= scopes[cur].base
    BY CurFacts
  <1>3. QED
    BY <1>1, <1>2, CutSound DEF Cut

LEMMA NextIterationStep ==
  ASSUME IInv, NextIteration
  PROVE  IInv'
  <1> DEFINE s == [scopes[cur] EXCEPT !.part = "condition", !.data = 0,
                                      !.arrays = 0, !.last = 0]
  <1>1. /\ Running /\ currScope.kind = "loop"
        /\ rsp' = rbp /\ mem' = Freed(mem, rsp')
        /\ scopes' = [scopes EXCEPT ![cur] = s]
        /\ UNCHANGED <<rbp, pc, loc, cause>>
    BY DEF NextIteration, Steady, currScope
  <1>2. /\ TypeOK /\ Sound /\ cause = "none" /\ pc = "run" /\ rbp = Fp(cur)
        /\ rbp \in Int
    BY <1>1, RunFacts
  <1>3. rbp = scopes[cur].base /\ scopes[cur].base >= Edge(cur)
        /\ Edge(cur) >= -StackSize /\ Edge(cur) \in Int
    BY <1>1, <1>2, UnderFacts, CurFacts DEF currScope
  <1>4. mem' \in [Addr -> Word]
        /\ \A a \in Addr : a >= scopes[cur].base => mem'[a] = mem[a]
    <2>1. rbp \in Word /\ mem \in [Addr -> Word] /\ mem' = Freed(mem, rbp)
      BY <1>1, <1>2 DEF TypeOK
    <2>2. QED
      BY <1>2, <1>3, <2>1, FreedFacts
  <1>5. scopes[cur].base - 0 >= -StackSize /\ scopes[cur].base - 0 = rbp
    BY <1>2, <1>3, FramesAssumption
  <1>s. s \in Scope /\ SameScope(s, scopes[cur]) /\ s.data = 0
    <2>1. scopes[cur] \in Scope
      BY <1>2, CurFacts
    <2>2. QED
      BY <2>1 DEF Scope, SameScope
  <1> HIDE DEF s
  <1>6. /\ Sound' /\ scopes' \in Seq(Scope) /\ scopes' # <<>>
        /\ Edge(cur)' = scopes[cur].base - s.data /\ Fp(cur)' = Fp(cur)
    BY <1>1, <1>2, <1>4, <1>5, <1>s, DataStep
  <1>7. TypeOK'
    BY <1>1, <1>2, <1>4, <1>6 DEF TypeOK
  <1>8. FrameOK' /\ rsp' \in Int
    BY <1>1, <1>2, <1>5, <1>6, <1>s DEF FrameOK
  <1>9. PhasesOK'
    BY <1>1, <1>2, <1>8, RunPhases
  <1>10. QED
    BY <1>6, <1>7, <1>9 DEF IInv, Sound

LEMMA ArraySumsNat == ArraySums \subseteq Nat
  BY FramesAssumption DEF ArraySums

LEMMA DeclareStep ==
  ASSUME IInv, NEW n \in VarSizes, NEW own \in ArraySums, Declare(n, own)
  PROVE  IInv'
  <1> DEFINE d == scopes[cur].data + n
             s == [scopes[cur] EXCEPT !.data = d,
                                      !.last = DataSize(cur) - own + n]
  <1>1. /\ Running /\ Room(n) /\ own <= scopes[cur].arrays
        /\ mem' = Clobber(mem, rsp - n, n) /\ rsp' = rsp - n
        /\ scopes' = [scopes EXCEPT ![cur] = s]
        /\ UNCHANGED <<rbp, pc, loc, cause>>
    BY DEF Declare, InBody, Steady, currScope
  <1>2. /\ TypeOK /\ Sound /\ cause = "none" /\ pc = "run"
        /\ rsp = Edge(cur) /\ rbp = Fp(cur) /\ rsp \in Int
    BY <1>1, RunFacts
  <1>3. /\ cur \in 1..cur /\ scopes[cur].data \in Nat /\ scopes[cur].base \in Int
        /\ scopes[cur].base >= Edge(cur) /\ n \in Nat
    BY <1>2, CurFacts, ScopeFields, FramesAssumption
  <1>4. d \in Nat /\ scopes[cur].base - d = rsp' /\ rsp' \in Int
        /\ rsp' >= -StackSize
    BY <1>1, <1>2, <1>3 DEF Room, Edge
  <1>5. s \in Scope /\ SameScope(s, scopes[cur]) /\ s.data = d
    <2>1. scopes[cur] \in Scope /\ scopes[cur].arrays \in Nat /\ own \in Nat
      BY <1>2, CurFacts, ScopeFields, ArraySumsNat
    <2>2. DataSize(cur) - own + n \in Nat
      BY <1>1, <1>3, <2>1 DEF DataSize
    <2> HIDE DEF d
    <2>3. QED
      BY <1>4, <2>1, <2>2 DEF Scope, SameScope
  <1> HIDE DEF s
  <1>6. mem' \in [Addr -> Word]
        /\ \A a \in Addr : a >= scopes[cur].base => mem'[a] = mem[a]
    <2>1. mem \in [Addr -> Word] /\ rsp - n \in Int /\ n \in Int
      BY <1>2, <1>3 DEF TypeOK
    <2>2. \A a \in Addr : a \in Int
      BY FramesAssumption DEF Addr
    <2>3. \A a \in Addr : a >= scopes[cur].base => a >= (rsp - n) + n
      BY <1>2, <1>3, <2>2
    <2>4. QED
      BY <1>1, <2>1, <2>3, ClobberFacts
  <1> HIDE DEF d
  <1>7. /\ Sound' /\ scopes' \in Seq(Scope) /\ scopes' # <<>>
        /\ Edge(cur)' = scopes[cur].base - s.data /\ Fp(cur)' = Fp(cur)
    <2>1. scopes[cur].base - s.data >= -StackSize
      BY <1>4, <1>5
    <2>2. QED
      BY <1>1, <1>2, <1>5, <1>6, <2>1, DataStep
  <1>8. TypeOK'
    BY <1>1, <1>2, <1>4, <1>6, <1>7 DEF TypeOK, Word
  <1>9. FrameOK' /\ rsp' \in Int
    BY <1>1, <1>2, <1>4, <1>5, <1>7 DEF FrameOK
  <1>10. PhasesOK'
    BY <1>1, <1>2, <1>9, RunPhases
  <1>11. QED
    BY <1>7, <1>8, <1>10 DEF IInv, Sound

\* A step that only records something in the current scope: RSP and RBP are
\* still what they were.
LEMMA RecordStep ==
  ASSUME IInv, Running, NEW s \in Scope, SameScope(s, scopes[cur]),
         s.data = scopes[cur].data, scopes' = [scopes EXCEPT ![cur] = s],
         UNCHANGED <<mem, rsp, rbp, pc, loc, cause>>
  PROVE  IInv'
  <1>1. /\ TypeOK /\ Sound /\ cause = "none" /\ pc = "run"
        /\ rsp = Edge(cur) /\ rbp = Fp(cur) /\ rsp \in Int
    BY RunFacts
  <1>2. /\ scopes[cur].data \in Nat /\ Edge(cur) >= -StackSize
        /\ Edge(cur) = scopes[cur].base - scopes[cur].data
    BY <1>1, CurFacts, ScopeFields DEF Edge
  <1>3. /\ Sound' /\ scopes' \in Seq(Scope) /\ scopes' # <<>>
        /\ Edge(cur)' = Edge(cur) /\ Fp(cur)' = Fp(cur)
    BY <1>1, <1>2, DataStep
  <1>4. TypeOK'
    BY <1>1, <1>3 DEF TypeOK
  <1>5. PhasesOK'
    BY <1>1, <1>3, RunPhases DEF FrameOK
  <1>6. QED
    BY <1>3, <1>4, <1>5 DEF IInv, Sound

LEMMA EnterBodyStep ==
  ASSUME IInv, NEW ret \in {0} \cup RetSizes, EnterBody(ret)
  PROVE  IInv'
  <1> DEFINE a == scopes[cur].arrays + ret
             s == [scopes[cur] EXCEPT !.part = "body", !.arrays = a]
  <1>1. /\ Running /\ scopes' = [scopes EXCEPT ![cur] = s]
        /\ UNCHANGED <<mem, rsp, rbp, pc, loc, cause>>
    BY DEF EnterBody, machine, Steady, currScope
  <1>2. scopes[cur] \in Scope /\ a \in Nat
    <2>1. scopes[cur] \in Scope /\ scopes[cur].arrays \in Nat /\ ret \in Nat
      BY CurNat, ScopeFields, FramesAssumption DEF IInv
    <2>2. QED
      BY <2>1
  <1>3. s \in Scope /\ SameScope(s, scopes[cur]) /\ s.data = scopes[cur].data
    <2> HIDE DEF a
    <2>1. QED
      BY <1>2 DEF Scope, SameScope
  <1> HIDE DEF s
  <1>4. QED
    BY <1>1, <1>3, RecordStep

LEMMA StartIterationStep ==
  ASSUME IInv, StartIteration
  PROVE  IInv'
  <1> DEFINE s == [scopes[cur] EXCEPT !.part = "iteration"]
  <1>1. /\ Running /\ scopes' = [scopes EXCEPT ![cur] = s]
        /\ UNCHANGED <<mem, rsp, rbp, pc, loc, cause>>
    BY DEF StartIteration, InBody, machine, Steady
  <1>2. scopes[cur] \in Scope
    BY CurNat DEF IInv
  <1>3. s \in Scope /\ SameScope(s, scopes[cur]) /\ s.data = scopes[cur].data
    BY <1>2 DEF Scope, SameScope
  <1> HIDE DEF s
  <1>4. QED
    BY <1>1, <1>3, RecordStep

LEMMA SkipConditionStep ==
  ASSUME IInv, NEW ret \in RetSizes, SkipCondition(ret)
  PROVE  IInv'
  <1> DEFINE s == [scopes[cur] EXCEPT !.arrays = @ + ret]
  <1>1. /\ Running /\ scopes' = [scopes EXCEPT ![cur] = s]
        /\ UNCHANGED <<mem, rsp, rbp, pc, loc, cause>>
    BY DEF SkipCondition, InBody, machine, Steady
  <1>2. scopes[cur] \in Scope /\ scopes[cur].arrays \in Nat /\ ret \in Nat
    BY CurNat, ScopeFields, FramesAssumption DEF IInv
  <1>3. s \in Scope /\ SameScope(s, scopes[cur]) /\ s.data = scopes[cur].data
    BY <1>2 DEF Scope, SameScope
  <1> HIDE DEF s
  <1>4. QED
    BY <1>1, <1>3, RecordStep

LEMMA SkipCallStep ==
  ASSUME IInv, NEW saves \in SaveSizes, NEW ret \in RetSizes,
         SkipCall(saves, ret)
  PROVE  IInv'
  <1> DEFINE s == [scopes[cur] EXCEPT !.arrays = @ + ret]
  <1>1. /\ Running /\ scopes' = [scopes EXCEPT ![cur] = s]
        /\ rsp' = rsp + saves + ret /\ mem' = Freed(mem, rsp')
        /\ cause' = "array" /\ UNCHANGED <<rbp, pc, loc>>
    BY DEF SkipCall
  <1>2. /\ TypeOK /\ Sound /\ pc = "run" /\ rsp \in Int
    BY <1>1, RunFacts
  <1>3. /\ scopes[cur] \in Scope /\ scopes[cur].arrays \in Nat
        /\ ret \in Nat /\ saves \in Nat /\ cur \in 1..cur
    BY <1>2, CurNat, ScopeFields, FramesAssumption
  <1>4. s \in Scope /\ SameScope(s, scopes[cur])
    BY <1>3 DEF Scope, SameScope
  <1> HIDE DEF s
  <1>5. Cut(cur, s.data)
    BY <1>1, <1>2, <1>4, DataCut
  <1>6. ChainOK' /\ AncestorsOK' /\ scopes' \in Seq(Scope) /\ scopes' # <<>>
    BY <1>2, <1>3, <1>5, CutChain DEF Cut, Sound
  <1>7. rsp' \in Word /\ mem' \in [Addr -> Word]
    <2>1. rsp' \in Word
      BY <1>1, <1>2, <1>3 DEF Word
    <2>2. QED
      BY <1>1, <1>2, <2>1, FreedFacts DEF TypeOK
  <1>8. TypeOK'
    BY <1>1, <1>2, <1>6, <1>7 DEF TypeOK
  <1>9. PhasesOK'
    BY <1>1, <1>2, RunPhases
  <1>10. QED
    BY <1>1, <1>6, <1>8, <1>9 DEF IInv, ScopesNest, SavedLinks

\* A step that leaves the scopes and the stack alone keeps their invariant.
LEMMA SameScopes ==
  ASSUME UNCHANGED <<scopes, mem>>
  PROVE  /\ ChainOK' = ChainOK /\ AncestorsOK' = AncestorsOK
         /\ SpacingOK' = SpacingOK /\ cur' = cur
         /\ \A k : LinkSaved(k)' = LinkSaved(k)
         /\ \A k : Edge(k)' = Edge(k) /\ Fp(k)' = Fp(k)
  <1>1. cur' = cur
    BY DEF cur
  <1>2. /\ \A k : Edge(k)' = Edge(k) /\ Fp(k)' = Fp(k)
        /\ \A k : Parent(k)' = Parent(k) /\ HasLink(k)' = HasLink(k)
    BY DEF Edge, Fp, FrameOf, Parent, HasLink
  <1>3. ChainOK' = ChainOK
    BY <1>1 DEF ChainOK, GlobalOK, ChildOK, Parent, HasLink
  <1>4. AncestorsOK' = AncestorsOK
    BY <1>1 DEF AncestorsOK, AncestryOK, Parent, HasLink
  <1>5. SpacingOK' = SpacingOK
    BY <1>1 DEF SpacingOK, Edge, Below
  <1>6. \A k : LinkSaved(k)' = LinkSaved(k)
    BY DEF LinkSaved, Fp, FrameOf
  <1>7. QED
    BY <1>1, <1>2, <1>3, <1>4, <1>5, <1>6

\* A scope left for its parent, whatever lies between them on the stack.
LEMMA LeaveChain ==
  ASSUME TypeOK, ChainOK, AncestorsOK, Leave, NEW g \in currScope.anc, g # cur
  PROVE  /\ ChainOK' /\ AncestorsOK' /\ scopes' \in Seq(Scope) /\ scopes' # <<>>
         /\ cur' = currScope.parent /\ cur' \in 1..cur - 1 /\ g \in 1..cur'
         /\ g \in currScope'.anc /\ scopes'[g].kind = scopes[g].kind
  <1> DEFINE n == currScope.parent
  <1>1. cur \in Nat \ {0} /\ cur \in 1..cur
    BY CurNat
  <1>2. AncestryOK(cur) /\ g \in 1..cur
    BY <1>1 DEF AncestorsOK, AncestryOK, currScope
  <1>3. cur \in 2..cur
    BY <1>1, <1>2
  <1>4. ChildOK(cur) /\ n \in 1..cur - 1 /\ n \in 1..cur
    BY <1>1, <1>3 DEF ChainOK, ChildOK, Parent, currScope
  <1>5. Cut(n, scopes[n].data)
    BY <1>4, DropCut DEF Leave
  <1>6. ChainOK' /\ AncestorsOK'
    BY <1>4, <1>5, CutChain
  <1>7. g \in scopes[n].anc /\ AncestryOK(n)
    BY <1>2, <1>4 DEF ChildOK, Parent, currScope, AncestorsOK
  <1>8. g \in 1..n
    BY <1>7 DEF AncestryOK
  <1> HIDE DEF n
  <1>9. scopes'[n].anc = scopes[n].anc /\ cur' = n
        /\ scopes'[g].kind = scopes[g].kind
    BY <1>4, <1>5, <1>8 DEF Cut, Keeps
  <1>10. g \in currScope'.anc
    BY <1>7, <1>9 DEF currScope
  <1>11. QED
    BY <1>4, <1>5, <1>6, <1>8, <1>9, <1>10 DEF Cut, n

LEMMA LoadPop ==
  ASSUME TypeOK, PopFrame
  PROVE  mem' \in [Addr -> Word] /\ rsp' \in Word /\ rbp' \in Word
  <1>1. rsp' \in Word
    BY FramesAssumption DEF PopFrame, Plus, Word, TypeOK
  <1>2. rbp' \in Word
    BY LoadType DEF PopFrame, TypeOK
  <1>3. mem' \in [Addr -> Word]
    BY <1>1, FreedFacts DEF PopFrame, TypeOK
  <1>4. QED
    BY <1>1, <1>2, <1>3

LEMMA IdleType ==
  /\ Idle \in Locals /\ Idle.links = 0 /\ Idle.crossed = 0
  /\ Idle.pushed = FALSE /\ Idle.lost = FALSE
  /\ Idle.args = 0 /\ Idle.saves = 0 /\ Idle.ret = 0 /\ Idle.id = 0
  BY DEF Idle, Locals

\* A step that only changes the statement under way.
LEMMA BeginFacts ==
  ASSUME IInv, Running, UNCHANGED <<scopes, mem>>, cause' = "none"
  PROVE  Sound'
  BY RunFacts, SameScopes DEF Sound, ScopesNest, SavedLinks

LEMMA ExitStep ==
  ASSUME IInv, Exit
  PROVE  IInv'
  <1>1. Running /\ UNCHANGED <<scopes, mem, rsp, rbp, loc, cause>>
        /\ pc' = "halted"
    BY DEF Exit, InBody
  <1>2. /\ TypeOK /\ Sound /\ cause = "none"
        /\ rsp = Edge(cur) /\ rbp = Fp(cur) /\ rsp \in Int
    BY <1>1, RunFacts
  <1>3. Sound'
    BY <1>1, <1>2, BeginFacts
  <1>4. TypeOK'
    BY <1>1, <1>2 DEF TypeOK
  <1>5. PhasesOK'
    <2>1. FrameOK' /\ rsp' \in Int
      BY <1>1, <1>2, SameScopes DEF FrameOK
    <2>2. QED
      BY <1>1, <2>1 DEF PhasesOK, ResolvedOK, HopOK, ReturnOK, BreakOK,
                        GotoOK, WalkOK, AdjustOK, AccessOK
  <1>6. QED
    BY <1>3, <1>4, <1>5 DEF IInv, Sound

LEMMA ReturnBeginStep ==
  ASSUME IInv, ReturnBegin
  PROVE  IInv'
  <1>1. /\ Running /\ currScope.func # 0 /\ UNCHANGED <<scopes, mem, rsp, rbp, cause>>
        /\ pc' = "return" /\ loc' = [Idle EXCEPT !.goal = currScope.func]
    BY DEF ReturnBegin, InBody, machine
  <1>2. /\ TypeOK /\ Sound /\ cause = "none"
        /\ rsp = Edge(cur) /\ rbp = Fp(cur) /\ rsp \in Int
    BY <1>1, RunFacts
  <1>3. Sound'
    BY <1>1, <1>2, BeginFacts
  <1>4. TypeOK' /\ loc'.goal = currScope.func
    <2>1. currScope.func \in Nat
      BY <1>2, CurFacts, ScopeFields DEF currScope
    <2>2. loc' \in Locals /\ loc'.goal = currScope.func
      BY <1>1, <2>1, IdleType DEF Locals
    <2>3. QED
      BY <1>1, <1>2, <2>2 DEF TypeOK
  <1>5. PhasesOK'
    <2>1. Fp(cur)' = Fp(cur) /\ currScope' = currScope
      BY <1>1, SameScopes DEF currScope, cur, Fp, FrameOf
    <2>2. ReturnOK'
      BY <1>1, <1>2, <1>4, <2>1 DEF ReturnOK
    <2>3. QED
      BY <1>1, <1>2, <2>2 DEF PhasesOK, ResolvedOK, HopOK, BreakOK,
                        GotoOK, WalkOK, AdjustOK, AccessOK
  <1>6. QED
    BY <1>3, <1>4, <1>5 DEF IInv, Sound

LEMMA BreakBeginStep ==
  ASSUME IInv, BreakBegin
  PROVE  IInv'
  <1>1. /\ Running /\ currScope.loop # 0 /\ UNCHANGED <<scopes, mem, rsp, rbp>>
        /\ pc' = "break" /\ loc' = [Idle EXCEPT !.goal = currScope.loop]
        /\ cause' = IF cur = currScope.loop THEN cause ELSE "break"
    BY DEF BreakBegin, InBody, machine
  <1>2. /\ TypeOK /\ Sound /\ cause = "none"
        /\ rsp = Edge(cur) /\ rbp = Fp(cur) /\ rsp \in Int
    BY <1>1, RunFacts
  <1>3. ChainOK' /\ AncestorsOK' /\ (cause' = "none" => Sound')
    BY <1>1, <1>2, BeginFacts, SameScopes DEF Sound
  <1>4. TypeOK' /\ loc'.goal = currScope.loop
    <2>1. currScope.loop \in Nat
      BY <1>2, CurFacts, ScopeFields DEF currScope
    <2>2. loc' \in Locals /\ loc'.goal = currScope.loop
      BY <1>1, <2>1, IdleType DEF Locals
    <2>3. QED
      BY <1>1, <1>2, <2>2 DEF TypeOK
  <1>5. PhasesOK'
    <2>1. Fp(cur)' = Fp(cur) /\ currScope' = currScope /\ cur' = cur
      BY <1>1, SameScopes DEF currScope, cur, Fp, FrameOf
    <2>2. AncestryOK(cur)
      BY <1>2, CurFacts DEF Sound, AncestorsOK
    <2>3. loc'.goal \in currScope'.anc /\ scopes'[loc'.goal].kind = "loop"
      BY <1>1, <1>4, <2>1, <2>2 DEF AncestryOK, currScope
    <2>4. BreakOK'
      BY <1>1, <1>2, <1>4, <2>1, <2>3 DEF BreakOK, currScope
    <2>5. QED
      BY <1>1, <1>2, <2>4 DEF PhasesOK, ResolvedOK, HopOK, ReturnOK,
                        GotoOK, WalkOK, AdjustOK, AccessOK
  <1>6. QED
    BY <1>3, <1>4, <1>5 DEF IInv, Sound, ScopesNest, SavedLinks

LEMMA GotoBeginStep ==
  ASSUME IInv, NEW t \in 1..cur, NEW data \in 0..MaxData,
         NEW arrays \in ArraySums, GotoBegin(t, data, arrays)
  PROVE  IInv'
  <1>1. /\ Running /\ t \in currScope.anc /\ UNCHANGED <<scopes, mem, rsp, rbp>>
        /\ pc' = "goto"
        /\ loc' = [Idle EXCEPT !.goal = t, !.data = data, !.arrays = arrays]
        /\ cause' = IF IsBalanced(t, data) THEN cause ELSE "goto"
    BY DEF GotoBegin, InBody, machine
  <1>2. /\ TypeOK /\ Sound /\ cause = "none"
        /\ rsp = Edge(cur) /\ rbp = Fp(cur) /\ rsp \in Int
    BY <1>1, RunFacts
  <1>3. ChainOK' /\ AncestorsOK' /\ (cause' = "none" => Sound')
    BY <1>1, <1>2, BeginFacts, SameScopes DEF Sound
  <1>4. TypeOK' /\ loc'.goal = t /\ loc'.data = data
    <2>1. t \in Nat /\ data \in Nat /\ arrays \in Nat
      BY <1>2, CurFacts, FramesAssumption, ArraySumsNat
    <2>2. loc' \in Locals /\ loc'.goal = t /\ loc'.data = data
      BY <1>1, <2>1, IdleType DEF Locals
    <2>3. QED
      BY <1>1, <1>2, <2>2 DEF TypeOK
  <1>5. PhasesOK'
    <2>1. /\ Fp(cur)' = Fp(cur) /\ currScope' = currScope /\ cur' = cur
          /\ Edge(cur)' = Edge(cur)
      BY <1>1, SameScopes DEF currScope, cur, Fp, FrameOf, Edge
    <2>2. cause' = "none" => IsBalanced(loc.goal, loc.data)'
      BY <1>1, <1>2, <1>4, <2>1 DEF IsBalanced
    <2>3. GotoOK'
      BY <1>1, <1>2, <1>4, <2>1, <2>2 DEF GotoOK
    <2>4. QED
      BY <1>1, <1>2, <2>3 DEF PhasesOK, ResolvedOK, HopOK, ReturnOK,
                        BreakOK, WalkOK, AdjustOK, AccessOK
  <1>6. QED
    BY <1>3, <1>4, <1>5 DEF IInv, Sound, ScopesNest, SavedLinks

LEMMA BreakScopeStep ==
  ASSUME IInv, BreakScope
  PROVE  IInv'
  <1>1. pc = "break" /\ cur # loc.goal /\ Leave /\ PopFrame
        /\ UNCHANGED <<pc, loc, cause>>
    BY DEF BreakScope
  <1>2. TypeOK /\ ChainOK /\ AncestorsOK
    BY DEF IInv
  <1>3. /\ loc.goal \in currScope.anc /\ scopes[loc.goal].kind = "loop"
        /\ cause = "break"
    BY <1>1 DEF IInv, PhasesOK, BreakOK
  <1>4. /\ ChainOK' /\ AncestorsOK' /\ scopes' \in Seq(Scope) /\ scopes' # <<>>
        /\ loc.goal \in currScope'.anc /\ scopes'[loc.goal].kind = "loop"
    <2>1. ASSUME NEW g \in currScope.anc, g = loc.goal
          PROVE  /\ ChainOK' /\ AncestorsOK' /\ scopes' \in Seq(Scope)
                 /\ scopes' # <<>>
                 /\ g \in currScope'.anc /\ scopes'[g].kind = scopes[g].kind
      BY <1>1, <1>2, <2>1, LeaveChain
    <2>2. QED
      BY <1>3, <2>1
  <1>5. TypeOK'
    BY <1>1, <1>2, <1>4, LoadPop DEF TypeOK
  <1>6. PhasesOK'
    <2>1. BreakOK'
      BY <1>1, <1>3, <1>4 DEF BreakOK
    <2>2. QED
      BY <1>1, <1>3, <2>1 DEF PhasesOK, ResolvedOK, HopOK, ReturnOK,
                        GotoOK, WalkOK, AdjustOK, AccessOK
  <1>7. QED
    BY <1>1, <1>3, <1>4, <1>5, <1>6 DEF IInv, ScopesNest, SavedLinks

LEMMA BreakStep ==
  ASSUME IInv, Break
  PROVE  IInv'
  <1>1. pc = "break" /\ cur = loc.goal /\ Leave /\ PopFrame
        /\ pc' = "run" /\ loc' = Idle /\ UNCHANGED cause
    BY DEF Break
  <1>2. TypeOK /\ ChainOK /\ AncestorsOK
    BY DEF IInv
  <1>3. /\ currScope.kind = "loop"
        /\ cause # "break" => rbp = Fp(cur)
        /\ cause # "none" => cause = "break" \/ cause \in {"goto", "array"}
    BY <1>1, <1>2 DEF IInv, PhasesOK, BreakOK, currScope, TypeOK
  <1>4. CASE cause = "none"
    <2>1. Sound
      BY <1>4 DEF IInv, Sound
    <2>2. /\ Sound' /\ scopes' \in Seq(Scope) /\ scopes' # <<>>
          /\ mem' \in [Addr -> Word] /\ rsp' \in Int /\ rbp' \in Int
          /\ rsp' = Edge(cur)' /\ rbp' = Fp(cur)'
      BY <1>1, <1>2, <1>3, <1>4, <2>1, LeaveLoop
    <2>3. TypeOK'
      BY <1>1, <1>2, <2>2, IdleType DEF TypeOK, Word
    <2>4. PhasesOK'
      BY <1>1, <2>2, RunPhases DEF FrameOK
    <2>5. QED
      BY <2>2, <2>3, <2>4 DEF IInv, Sound
  <1>5. CASE cause # "none"
    <2>1. cur \in 2..cur
      <3>1. cur # 1
        BY <1>2, <1>3 DEF ChainOK, GlobalOK, currScope
      <3>2. QED
        BY <1>2, <3>1, CurNat
    <2>2. ChildOK(cur)
      BY <1>2, <2>1 DEF ChainOK
    <2>3. currScope.parent \in 1..cur
      BY <2>2, <1>2, CurNat DEF ChildOK, Parent, currScope
    <2>4. Cut(currScope.parent, scopes[currScope.parent].data)
      BY <1>1, <1>2, <2>3, DropCut DEF Leave
    <2>5. ChainOK' /\ AncestorsOK' /\ scopes' \in Seq(Scope) /\ scopes' # <<>>
      BY <1>2, <2>3, <2>4, CutChain DEF Cut
    <2>6. TypeOK'
      BY <1>1, <1>2, <2>5, LoadPop, IdleType DEF TypeOK
    <2>7. PhasesOK'
      BY <1>1, <1>5, RunPhases
    <2>8. QED
      BY <1>1, <1>5, <2>5, <2>6, <2>7 DEF IInv, ScopesNest, SavedLinks
  <1>6. QED
    BY <1>4, <1>5

\* Leaving a scope of the func on the way out of it keeps RBP right.
LEMMA LeaveFrame ==
  ASSUME TypeOK, Sound, cause = "none", currScope.kind \in {"block", "loop"},
         Leave, IF HasLink(cur) THEN PopFrame ELSE UNCHANGED machine,
         rbp = Fp(cur)
  PROVE  /\ Sound' /\ scopes' \in Seq(Scope) /\ scopes' # <<>>
         /\ mem' \in [Addr -> Word] /\ rsp' \in Word /\ rbp' \in Word
         /\ rsp \in Int => rsp' \in Int
         /\ cur' = cur - 1 /\ Keeps(cur - 1) /\ rbp' = Fp(cur)'
         /\ currScope.kind = "loop" => rsp' = Edge(cur)'
         /\ currScope.kind = "block" => rsp' = rsp /\ Edge(cur)' = currScope.base
  <1>1. CASE currScope.kind = "loop"
    <2>1. PopFrame
      BY <1>1 DEF HasLink, currScope
    <2>2. QED
      BY <1>1, <2>1, LeaveLoop DEF Word
  <1>2. CASE currScope.kind = "block"
    <2>1. UNCHANGED <<mem, rsp, rbp>>
      BY <1>2 DEF HasLink, currScope, machine
    <2>2. Edge(cur - 1) \in Int /\ Edge(cur - 1) <= Edge(cur - 1)
      BY <1>2, UnderFacts
    <2>3. /\ Sound' /\ scopes' \in Seq(Scope) /\ scopes' # <<>>
          /\ cur' = cur - 1 /\ Keeps(cur - 1)
          /\ Edge(cur)' = currScope.base /\ Fp(cur)' = Fp(cur)
      BY <1>2, <2>1, <2>2, LeaveBlock
    <2>4. QED
      BY <1>2, <2>1, <2>3 DEF TypeOK
  <1>3. QED
    BY <1>1, <1>2

LEMMA LeaveScopeReturn ==
  ASSUME IInv, LeaveScope, pc = "return"
  PROVE  IInv'
  <1>1. /\ cur # loc.goal /\ Leave /\ UNCHANGED <<pc, loc, cause>>
        /\ IF HasLink(cur) THEN PopFrame ELSE UNCHANGED machine
    BY DEF LeaveScope
  <1>2. /\ TypeOK /\ cause = "none" /\ loc.goal # 0 /\ loc.goal = currScope.func
        /\ rbp = Fp(cur) /\ rsp \in Int
    BY DEF IInv, PhasesOK, ReturnOK
  <1>3. Sound
    BY <1>2 DEF IInv, Sound
  <1>4. cur \in 1..cur /\ cur \in Nat \ {0}
    BY <1>2, CurNat
  <1>5. cur # 1
    BY <1>2, <1>3 DEF Sound, ChainOK, GlobalOK, currScope
  <1>6. ChildOK(cur)
    BY <1>3, <1>4, <1>5 DEF Sound, ChainOK
  <1>7. currScope.kind \in {"block", "loop"}
    BY <1>1, <1>2, <1>6 DEF ChildOK, currScope
  <1>8. currScope.parent = cur - 1 /\ cur - 1 \in 1..cur - 1
    BY <1>2, <1>3, <1>4, <1>7, UnderFacts
  <1>9. /\ Sound' /\ scopes' \in Seq(Scope) /\ scopes' # <<>>
        /\ mem' \in [Addr -> Word] /\ rsp' \in Word /\ rbp' \in Word
        /\ rsp' \in Int /\ cur' = cur - 1 /\ Keeps(cur - 1) /\ rbp' = Fp(cur)'
    BY <1>1, <1>2, <1>3, <1>7, LeaveFrame
  <1>10. currScope'.func = loc.goal
    <2>1. scopes[cur - 1].func = currScope.func
      BY <1>6, <1>7, <1>8 DEF ChildOK, Parent, currScope
    <2>2. QED
      BY <1>2, <1>8, <1>9, <2>1 DEF Keeps, currScope
  <1>11. TypeOK'
    BY <1>1, <1>2, <1>9 DEF TypeOK
  <1>12. PhasesOK'
    <2>1. ReturnOK'
      BY <1>1, <1>2, <1>9, <1>10 DEF ReturnOK
    <2>2. QED
      BY <1>1, <1>2, <1>9, <2>1 DEF PhasesOK, ResolvedOK, HopOK, BreakOK,
                        GotoOK, WalkOK, AdjustOK, AccessOK
  <1>13. QED
    BY <1>9, <1>11, <1>12 DEF IInv, Sound

LEMMA LeaveScopeGoto ==
  ASSUME IInv, LeaveScope, pc = "goto", cause = "none"
  PROVE  IInv'
  <1> DEFINE t == loc.goal
  <1>1. /\ cur # t /\ Leave /\ UNCHANGED <<pc, loc, cause>>
        /\ IF HasLink(cur) THEN PopFrame ELSE UNCHANGED machine
    BY DEF LeaveScope
  <1>2. /\ TypeOK /\ t \in currScope.anc /\ IsBalanced(t, loc.data)
        /\ rbp = Fp(cur) /\ rsp \in Int
        /\ rsp = Edge(cur) \/ currScope.frameScope # scopes[t].frameScope
    BY DEF IInv, PhasesOK, GotoOK
  <1>3. Sound
    BY DEF IInv, Sound
  <1> HIDE DEF t
  <1>4. cur \in 1..cur /\ cur \in Nat \ {0}
    BY <1>2, CurNat
  <1>5. /\ cur' = currScope.parent /\ cur' \in 1..cur - 1 /\ t \in 1..cur'
        /\ t \in currScope'.anc
    BY <1>1, <1>2, <1>3, LeaveChain DEF Sound
  <1>6. cur \in 2..cur /\ t \in 1..cur - 1 /\ t \in 1..cur
    BY <1>4, <1>5
  <1>7. ChildOK(cur) /\ AncestryOK(t)
    BY <1>3, <1>4, <1>6 DEF Sound, ChainOK, AncestorsOK
  <1>8. currScope.kind \in {"block", "loop"}
    <2>1. scopes[t].func \in 0..t
      BY <1>6, <1>7 DEF AncestryOK
    <2>2. scopes[t].func # cur
      BY <1>4, <1>6, <2>1
    <2>3. QED
      BY <1>2, <1>7, <2>2 DEF ChildOK, IsBalanced, currScope
  <1>9. /\ currScope.parent = cur - 1 /\ cur - 1 \in 1..cur - 1
        /\ scopes[cur - 1].func = currScope.func
        /\ currScope.kind = "block" =>
             scopes[cur - 1].frameScope = currScope.frameScope
    <2>1. currScope.parent = cur - 1 /\ cur - 1 \in 1..cur - 1
      BY <1>2, <1>3, <1>4, <1>8, UnderFacts
    <2>2. QED
      BY <1>7, <1>8, <2>1 DEF ChildOK, Parent, HasLink, currScope
  <1>10. /\ Sound' /\ scopes' \in Seq(Scope) /\ scopes' # <<>>
         /\ mem' \in [Addr -> Word] /\ rsp' \in Word /\ rbp' \in Word
         /\ rsp' \in Int /\ cur' = cur - 1 /\ Keeps(cur - 1) /\ rbp' = Fp(cur)'
         /\ currScope.kind = "loop" => rsp' = Edge(cur)'
         /\ currScope.kind = "block" => rsp' = rsp /\ Edge(cur)' = currScope.base
    BY <1>1, <1>2, <1>3, <1>8, LeaveFrame
  <1>11. \A k \in 1..cur - 1 : scopes'[k] = scopes[k]
    BY <1>1, <1>2, <1>6, <1>9, DropFacts DEF Leave
  <1>12. IsBalanced(t, loc.data)'
    <2>1. scopes[t].func = scopes[cur - 1].func /\ scopes[t].data = loc.data
          /\ \A k \in t + 1 .. cur :
               scopes[k].frameScope = scopes[t].frameScope => scopes[k].data = 0
      BY <1>2, <1>9 DEF IsBalanced, currScope
    <2>2. t' = t /\ loc' = loc
      BY <1>1 DEF t
    <2>3. QED
      BY <1>4, <1>6, <1>9, <1>10, <1>11, <2>1, <2>2 DEF IsBalanced, currScope
  <1>13. rsp' = Edge(cur)' \/ currScope'.frameScope # scopes'[t].frameScope
    <2>1. CASE currScope.kind = "loop"
      BY <1>10, <2>1
    <2>2. CASE currScope.kind = "block" /\ rsp = Edge(cur)
               /\ currScope.frameScope = scopes[t].frameScope
      <3>1. cur \in t + 1 .. cur
        BY <1>4, <1>6
      <3>2. currScope.data = 0
        BY <1>2, <2>2, <3>1 DEF IsBalanced, currScope
      <3>3. Edge(cur) = currScope.base
        BY <1>2, <1>4, <3>2, CurNat, ScopeFields DEF Edge, currScope
      <3>4. QED
        BY <1>10, <2>2, <3>3
    <2>3. CASE currScope.kind = "block"
               /\ currScope.frameScope # scopes[t].frameScope
      BY <1>6, <1>9, <1>10, <1>11, <2>3 DEF currScope
    <2>4. QED
      BY <1>2, <1>8, <2>1, <2>2, <2>3
  <1>14. TypeOK'
    BY <1>1, <1>2, <1>10 DEF TypeOK
  <1>15. PhasesOK'
    <2>1. GotoOK'
      BY <1>1, <1>5, <1>10, <1>12, <1>13 DEF GotoOK, t
    <2>2. QED
      BY <1>1, <1>10, <2>1 DEF PhasesOK, ResolvedOK, HopOK, BreakOK,
                        ReturnOK, WalkOK, AdjustOK, AccessOK
  <1>16. QED
    BY <1>10, <1>14, <1>15 DEF IInv, Sound

LEMMA LeaveScopeUnbalanced ==
  ASSUME IInv, LeaveScope, pc = "goto", cause # "none"
  PROVE  IInv'
  <1>1. /\ cur # loc.goal /\ Leave /\ UNCHANGED <<pc, loc, cause>>
        /\ IF HasLink(cur) THEN PopFrame ELSE UNCHANGED machine
    BY DEF LeaveScope
  <1>2. TypeOK /\ ChainOK /\ AncestorsOK /\ loc.goal \in currScope.anc
    BY DEF IInv, PhasesOK, GotoOK
  <1>3. /\ ChainOK' /\ AncestorsOK' /\ scopes' \in Seq(Scope) /\ scopes' # <<>>
        /\ loc.goal \in currScope'.anc
    <2>1. ASSUME NEW g \in currScope.anc, g = loc.goal
          PROVE  /\ ChainOK' /\ AncestorsOK' /\ scopes' \in Seq(Scope)
                 /\ scopes' # <<>> /\ g \in currScope'.anc
      BY <1>1, <1>2, <2>1, LeaveChain
    <2>2. QED
      BY <1>2, <2>1
  <1>4. TypeOK'
    BY <1>1, <1>2, <1>3, LoadPop DEF TypeOK, machine
  <1>5. PhasesOK'
    <2>1. GotoOK'
      BY <1>1, <1>3 DEF GotoOK
    <2>2. QED
      BY <1>1, <2>1 DEF PhasesOK, ResolvedOK, HopOK, ReturnOK,
                        BreakOK, WalkOK, AdjustOK, AccessOK
  <1>6. QED
    BY <1>1, <1>3, <1>4, <1>5 DEF IInv, ScopesNest, SavedLinks

\* The label's scope as the goto finds it.
LEMMA GotoScope ==
  ASSUME TypeOK, Goto
  PROVE  \E s \in Scope : /\ SameScope(s, scopes[cur]) /\ s.data = loc.data
                          /\ scopes' = [scopes EXCEPT ![cur] = s]
  <1>1. PICK before \in {0, loc.arrays} :
          scopes' = [scopes EXCEPT
                       ![cur] = [currScope EXCEPT !.part = "body",
                                   !.data = loc.data, !.arrays = loc.arrays,
                                   !.last = loc.data + before]]
    BY DEF Goto
  <1> DEFINE s == [scopes[cur] EXCEPT !.part = "body", !.data = loc.data,
                                      !.arrays = loc.arrays,
                                      !.last = loc.data + before]
  <1>2. /\ scopes[cur] \in Scope /\ loc.data \in Nat /\ loc.arrays \in Nat
        /\ loc.data + before \in Nat
    BY CurNat DEF TypeOK, Locals
  <1>3. s \in Scope /\ SameScope(s, scopes[cur]) /\ s.data = loc.data
    BY <1>2 DEF Scope, SameScope
  <1>4. scopes' = [scopes EXCEPT ![cur] = s]
    BY <1>1 DEF currScope
  <1> HIDE DEF s
  <1>5. QED
    BY <1>3, <1>4

LEMMA GotoStep ==
  ASSUME IInv, Goto
  PROVE  IInv'
  <1>1. /\ pc = "goto" /\ cur = loc.goal /\ pc' = "run" /\ loc' = Idle
        /\ UNCHANGED <<mem, rsp, rbp, cause>>
    BY DEF Goto, machine
  <1>2. TypeOK /\ ChainOK /\ AncestorsOK /\ loc.data \in Nat
    BY DEF IInv, TypeOK, Locals
  <1>3. PICK s \in Scope : /\ SameScope(s, scopes[cur]) /\ s.data = loc.data
                           /\ scopes' = [scopes EXCEPT ![cur] = s]
    BY <1>2, GotoScope
  <1>4. ChainOK' /\ AncestorsOK' /\ scopes' \in Seq(Scope) /\ scopes' # <<>>
    <2>1. Cut(cur, s.data)
      BY <1>2, <1>3, DataCut
    <2>2. cur \in 1..cur
      BY <1>2, CurNat
    <2>3. QED
      BY <1>2, <2>1, <2>2, CutChain DEF Cut
  <1>5. TypeOK'
    BY <1>1, <1>2, <1>4, IdleType DEF TypeOK
  <1>6. CASE cause = "none"
    <2>1. /\ Sound /\ scopes[cur].data = loc.data
          /\ rbp = Fp(cur) /\ rsp = Edge(cur)
      BY <1>1, <1>6 DEF IInv, Sound, PhasesOK, GotoOK, IsBalanced, currScope
    <2>2. Edge(cur) = scopes[cur].base - loc.data /\ Edge(cur) >= -StackSize
          /\ Edge(cur) \in Int
      BY <1>2, <1>6, <2>1, CurFacts DEF Edge
    <2>3. /\ Sound' /\ Edge(cur)' = scopes[cur].base - loc.data
          /\ Fp(cur)' = Fp(cur)
      BY <1>1, <1>2, <1>3, <1>6, <2>1, <2>2, DataStep
    <2>4. FrameOK' /\ rsp' \in Int
      BY <1>1, <2>1, <2>2, <2>3 DEF FrameOK
    <2>5. PhasesOK'
      BY <1>1, <2>4, RunPhases
    <2>6. QED
      BY <1>5, <2>3, <2>5 DEF IInv, Sound
  <1>7. CASE cause # "none"
    <2>1. PhasesOK'
      BY <1>1, <1>7, RunPhases
    <2>2. QED
      BY <1>1, <1>4, <1>5, <1>7, <2>1 DEF IInv, ScopesNest, SavedLinks
  <1>8. QED
    BY <1>6, <1>7

LEMMA ReturnCut ==
  ASSUME TypeOK, NEW n \in 1..cur, NEW r \in Nat,
         scopes' = [SubSeq(scopes, 1, n) EXCEPT ![n].arrays = @ + r]
  PROVE  Cut(n, scopes[n].data)
  <1> DEFINE q == SubSeq(scopes, 1, n)
             a == scopes[n].arrays + r
             s == [scopes[n] EXCEPT !.arrays = a]
  <1>1. cur \in Nat /\ n \in 1..n /\ n \in Nat /\ scopes \in Seq(Scope)
        /\ scopes[n] \in Scope /\ a \in Nat
    BY CurNat, ScopeFields DEF TypeOK
  <1>2. q \in Seq(Scope) /\ Len(q) = n /\ \A k \in 1..n : q[k] = scopes[k]
    BY <1>1 DEF cur
  <1>3. s \in Scope /\ SameScope(s, scopes[n]) /\ s.data = scopes[n].data
    <2> HIDE DEF a
    <2>1. QED
      BY <1>1 DEF Scope, SameScope
  <1>4. scopes' = [q EXCEPT ![n] = s]
    BY <1>1, <1>2
  <1> HIDE DEF q, s
  <1>5. /\ scopes' \in Seq(Scope) /\ Len(scopes') = n
        /\ \A k \in 1..n : k # n => scopes'[k] = q[k]
        /\ scopes'[n].data = scopes[n].data /\ SameScope(scopes'[n], q[n])
    <2>1. n \in 1..Len(q) /\ SameScope(s, q[n])
      BY <1>1, <1>2, <1>3
    <2>2. scopes' \in Seq(Scope)
      BY <1>2, <1>3, <1>4, <2>1
    <2>3. Len(scopes') = Len(q)
      BY <1>2, <1>3, <1>4, <2>1
    <2>4. scopes'[n] = s
      BY <1>2, <1>4, <2>1
    <2>5. \A k \in 1..Len(q) : k # n => scopes'[k] = q[k]
      BY <1>2, <1>4, <2>1
    <2>6. QED
      BY <1>2, <1>3, <2>1, <2>2, <2>3, <2>4, <2>5
  <1>6. Keeps(n)
    BY <1>1, <1>2, <1>5 DEF Keeps, SameScope
  <1>7. \A k \in 1..n - 1 : scopes'[k].data = scopes[k].data
    BY <1>1, <1>2, <1>5
  <1>8. cur' = n /\ scopes' # <<>>
    BY <1>1, <1>5 DEF cur
  <1>9. QED
    BY <1>5, <1>6, <1>7, <1>8 DEF Cut

\* The func that "return" leaves is the current scope.
LEMMA AtFunc ==
  ASSUME TypeOK, Sound, cause = "none", cur = currScope.func
  PROVE  /\ currScope.kind = "func" /\ cur \in 2..cur /\ cur - 1 \in 1..cur
         /\ currScope.base \in Int /\ currScope.base + WordSize \in Addr
         /\ Fp(cur) = currScope.base
         /\ mem[currScope.base + WordSize] = Fp(cur - 1)
         /\ currScope.base = Edge(cur - 1) - currScope.ret - currScope.saves
                             - currScope.args - 3 * WordSize
         /\ currScope.base >= -StackSize
         /\ Edge(cur - 1) \in Int /\ scopes[cur - 1] \in Scope
  <1>1. cur \in Nat \ {0} /\ cur \in 1..cur /\ scopes[cur] \in Scope
        /\ Edge(cur) \in Int /\ Edge(cur) >= -StackSize
        /\ scopes[cur].base \in Int /\ scopes[cur].base >= Edge(cur)
    BY CurFacts
  <1>2. cur # 1
    BY <1>1 DEF Sound, ChainOK, GlobalOK, currScope
  <1>3. cur \in 2..cur /\ cur - 1 \in 1..cur /\ scopes[cur - 1] \in Scope
        /\ cur - 1 \in 1..cur - 1
    BY <1>1, <1>2, CurNat
  <1>4. ChildOK(cur)
    BY <1>3 DEF Sound, ChainOK
  <1>5. currScope.kind = "func"
    <2> SUFFICES ASSUME currScope.kind # "func"
                 PROVE  FALSE
      OBVIOUS
    <2>1. currScope.parent \in 1..cur - 1
          /\ scopes[currScope.parent].func = cur
      BY <1>4 DEF ChildOK, Parent, currScope
    <2>2. AncestryOK(currScope.parent)
      BY <1>1, <2>1 DEF Sound, AncestorsOK
    <2>3. cur \in 0..currScope.parent
      BY <1>1, <2>1, <2>2 DEF AncestryOK
    <2>4. QED
      BY <1>1, <2>1, <2>3
  <1>6. Fp(cur) = currScope.base
    BY <1>1, <1>4, <1>5 DEF ChildOK, HasLink, currScope, Fp, FrameOf
  <1>7. LinkSaved(cur)
    BY <1>3 DEF Sound, SavedLinks
  <1>8. mem[currScope.base + WordSize] = Fp(cur - 1)
    BY <1>5, <1>7 DEF LinkSaved, currScope
  <1>9. /\ scopes[cur].base = Edge(cur - 1) - Below(scopes[cur])
        /\ scopes[cur - 1].base <= 0
    BY <1>3 DEF Sound, SpacingOK
  <1>10. /\ scopes[cur - 1].base \in Int /\ scopes[cur - 1].data \in Nat
         /\ scopes[cur].ret \in Nat /\ scopes[cur].saves \in Nat
         /\ scopes[cur].args \in Nat
    BY <1>1, <1>3, ScopeFields
  <1>11. Edge(cur - 1) \in Int /\ Edge(cur - 1) <= 0
    BY <1>9, <1>10 DEF Edge
  <1>12. currScope.base = Edge(cur - 1) - currScope.ret - currScope.saves
                          - currScope.args - 3 * WordSize
    BY <1>5, <1>9, <1>10, <1>11, FramesAssumption DEF Below, currScope
  <1>13. currScope.base + WordSize \in Addr /\ currScope.base >= -StackSize
    BY <1>1, <1>10, <1>11, <1>12, FramesAssumption DEF Addr, currScope
  <1>14. QED
    BY <1>1, <1>3, <1>5, <1>6, <1>8, <1>11, <1>12, <1>13 DEF currScope

LEMMA ReturnStep ==
  ASSUME IInv, Return
  PROVE  IInv'
  <1> DEFINE n == cur - 1
             s == currScope
             argsEnd == rbp + 3 * WordSize + s.args
             d == scopes[n].data
  <1>1. /\ pc = "return" /\ cur = loc.goal /\ rbp' = Load(rbp + WordSize)
        /\ rsp' = argsEnd + s.saves + s.ret
        /\ scopes' = [SubSeq(scopes, 1, n) EXCEPT ![n].arrays = @ + s.ret]
        /\ pc' = "run" /\ loc' = Idle
        /\ mem' = Freed(mem, rsp') /\ UNCHANGED cause
    BY DEF Return
  <1>2. TypeOK /\ cause = "none" /\ cur = s.func /\ rbp = Fp(cur)
    BY <1>1 DEF IInv, PhasesOK, ReturnOK
  <1>3. Sound
    BY <1>2 DEF IInv, Sound
  <1>4. /\ cur \in 2..cur /\ n \in 1..cur
        /\ s.base \in Int /\ s.base + WordSize \in Addr
        /\ Fp(cur) = s.base /\ mem[s.base + WordSize] = Fp(n)
        /\ s.base = Edge(n) - s.ret - s.saves - s.args - 3 * WordSize
        /\ s.base >= -StackSize
        /\ Edge(n) \in Int /\ scopes[n] \in Scope
    BY <1>2, <1>3, AtFunc
  <1>5. /\ s.ret \in Nat /\ s.saves \in Nat /\ s.args \in Nat
        /\ d \in Nat /\ scopes[n].base \in Int
    <2>1. scopes[cur] \in Scope /\ scopes[n] \in Scope
      BY <1>2, <1>4, CurNat
    <2>2. QED
      BY <2>1, ScopeFields DEF currScope
  <1> HIDE DEF n, s
  <1>6. Cut(n, d)
    BY <1>1, <1>2, <1>4, <1>5, ReturnCut
  <1>7. rsp' \in Int /\ rsp' = Edge(n)
    <2>1. argsEnd = Edge(n) - s.ret - s.saves
      <3>1. rbp = s.base /\ WordSize \in Nat
        BY <1>2, <1>4, FramesAssumption
      <3>2. QED
        BY <1>4, <1>5, <3>1
    <2> HIDE DEF argsEnd
    <2>2. QED
      BY <1>1, <1>4, <1>5, <2>1
  <1>8. rbp' = Fp(n)
    BY <1>1, <1>2, <1>4 DEF Load
  <1>9. /\ mem' \in [Addr -> Word]
        /\ \A a \in Addr : a >= rsp' => mem'[a] = mem[a]
    <2>1. mem \in [Addr -> Word] /\ rsp' \in Word
      BY <1>2, <1>7 DEF TypeOK, Word
    <2>2. QED
      BY <1>1, <1>7, <2>1, FreedFacts
  <1>10. scopes[n].base - d = Edge(n)
         /\ scopes[n].base - d >= -StackSize /\ rsp' <= scopes[n].base
    BY <1>4, <1>5, <1>7, FramesAssumption DEF Edge
  <1> HIDE DEF d
  <1>11. /\ Sound' /\ Edge(cur)' = scopes[n].base - d /\ Fp(cur)' = Fp(n)
    BY <1>2, <1>3, <1>4, <1>5, <1>6, <1>7, <1>9, <1>10, CutSound
  <1>12. rbp' \in Word
    BY <1>2, <1>4, <1>8 DEF TypeOK
  <1>13. TypeOK'
    BY <1>1, <1>2, <1>6, <1>7, <1>9, <1>12, IdleType DEF TypeOK, Cut, Word
  <1>14. PhasesOK'
    <2>1. FrameOK' /\ rsp' \in Int
      BY <1>7, <1>8, <1>10, <1>11 DEF FrameOK
    <2>2. QED
      BY <1>1, <2>1, RunPhases
  <1>15. QED
    BY <1>11, <1>13, <1>14 DEF IInv, Sound

-----------------------------------------------------------------------------
(* Steps that leave the scopes alone: accesses to variables, and calls. *)

\* The stack may change below the variables in use.
LEMMA SameSound ==
  ASSUME TypeOK, Sound, cause = "none", cause' = "none", UNCHANGED scopes,
         \A a \in Addr : a >= Edge(cur) => mem'[a] = mem[a]
  PROVE  /\ Sound' /\ cur' = cur /\ Edge(cur)' = Edge(cur)
         /\ \A k : Fp(k)' = Fp(k)
         /\ \A f : FrameOf(f)' = FrameOf(f)
  <1>1. /\ cur' = cur /\ Edge(cur)' = Edge(cur)
        /\ \A k : Fp(k)' = Fp(k)
        /\ \A f : FrameOf(f)' = FrameOf(f)
    BY DEF cur, Edge, Fp, FrameOf
  <1>2. ChainOK' /\ AncestorsOK' /\ SpacingOK' /\ ScopesNest'
    BY <1>1 DEF Sound, ChainOK, GlobalOK, ChildOK, Parent, HasLink, AncestorsOK,
                AncestryOK, SpacingOK, Edge, Below, ScopesNest
  <1>3. SavedLinks'
    <2>1. cur \in 1..cur /\ Edge(cur) \in Int
      BY CurFacts
    <2>2. Keeps(cur)
      BY DEF Keeps
    <2>3. \A k \in 2..cur : LinkSaved(k)
      BY DEF Sound, SavedLinks
    <2>4. \A k \in 2..cur : scopes[k].base >= Edge(cur)
      BY <2>1, BasesAboveEdge, CurNat DEF Sound
    <2>5. \A k \in 2..cur : LinkSaved(k)'
      BY <2>1, <2>2, <2>3, <2>4, KeepsLinks DEF Sound
    <2>6. QED
      BY <1>1, <2>5 DEF SavedLinks
  <1>4. QED
    BY <1>1, <1>2, <1>3 DEF Sound

\* Any open scope that is no func, and the scope it was opened in.
LEMMA ParentFacts ==
  ASSUME TypeOK, Sound, cause = "none", NEW k \in 1..cur,
         scopes[k].kind \in {"block", "loop"}
  PROVE  /\ k - 1 \in 1..cur /\ scopes[k].parent = k - 1
         /\ scopes[k].anc = scopes[k - 1].anc \cup {k}
         /\ scopes[k].base \in Int /\ scopes[k - 1].base \in Int
         /\ scopes[k - 1].data \in Nat
         /\ scopes[k].base + LinkSize(k) = scopes[k - 1].base - scopes[k - 1].data
         /\ scopes[k].kind = "block" => Fp(k) = Fp(k - 1)
         /\ scopes[k].kind = "loop" =>
              /\ Fp(k) = scopes[k].base /\ scopes[k].base \in Addr
              /\ mem[scopes[k].base] = Fp(k - 1)
  <1>1. cur \in Nat \ {0} /\ scopes[k] \in Scope
    BY CurNat
  <1>2. k # 1
    BY DEF Sound, ChainOK, GlobalOK
  <1>3. k \in 2..cur /\ k - 1 \in 1..cur /\ k # 0
    BY <1>1, <1>2
  <1>4. ChildOK(k) /\ LinkSaved(k)
    BY <1>3 DEF Sound, ChainOK, SavedLinks
  <1>5. /\ scopes[k].parent = k - 1 /\ scopes[k].anc = scopes[k - 1].anc \cup {k}
        /\ scopes[k].kind = "block" => scopes[k].frameScope = scopes[k - 1].frameScope
        /\ scopes[k].kind = "loop" => scopes[k].frameScope = k
    BY <1>4 DEF ChildOK, Parent, HasLink
  <1>6. /\ scopes[k].base = Edge(k - 1) - Below(scopes[k])
        /\ scopes[k].base <= 0 /\ Edge(k) >= -StackSize
    BY <1>3 DEF Sound, SpacingOK
  <1>7. /\ scopes[k].base \in Int /\ scopes[k].data \in Nat
        /\ scopes[k - 1].base \in Int /\ scopes[k - 1].data \in Nat
    BY <1>1, <1>3, CurNat, ScopeFields
  <1>8. scopes[k].base + LinkSize(k) = scopes[k - 1].base - scopes[k - 1].data
    BY <1>6, <1>7, FramesAssumption DEF Below, LinkSize, HasLink, Edge
  <1>9. scopes[k].base \in Addr
    BY <1>6, <1>7, FramesAssumption DEF Edge, Addr
  <1>10. scopes[k].kind = "block" => Fp(k) = Fp(k - 1)
    BY <1>5 DEF Fp
  <1>11. scopes[k].kind = "loop" =>
           Fp(k) = scopes[k].base /\ mem[scopes[k].base] = Fp(k - 1)
    BY <1>3, <1>4, <1>5 DEF Fp, FrameOf, LinkSaved
  <1>12. QED
    BY <1>3, <1>5, <1>7, <1>8, <1>9, <1>10, <1>11

\* A scope that a visible scope other than a func was opened in is visible too,
\* and is not the current one.
LEMMA ParentVisible ==
  ASSUME TypeOK, Sound, NEW k \in 1..cur, k - 1 \in 1..cur,
         scopes[k].anc = scopes[k - 1].anc \cup {k},
         scopes[k].anc \subseteq currScope.anc
  PROVE  k - 1 \in currScope.anc /\ k - 1 # cur
  <1>1. cur \in Nat \ {0} /\ k \in Nat
    BY CurNat
  <1>2. k - 1 \in scopes[k - 1].anc
    BY DEF Sound, AncestorsOK, AncestryOK
  <1>3. QED
    BY <1>1, <1>2

LEMMA AccessBeginStep ==
  ASSUME IInv, NEW k \in 1..cur, NEW id \in IdAddresses(k), AccessBegin(k, id)
  PROVE  IInv'
  <1>1. /\ Running /\ k \in currScope.anc /\ Room(WordSize)
        /\ pc' = "walk" /\ UNCHANGED <<scopes, mem, rsp, rbp, cause>>
        /\ loc' = [Idle EXCEPT !.at = cur, !.goal = k, !.id = id, !.addr = -id]
    BY DEF AccessBegin, Visible, machine
  <1>2. /\ TypeOK /\ Sound /\ cause = "none"
        /\ rsp = Edge(cur) /\ rbp = Fp(cur) /\ rsp \in Int
    BY <1>1, RunFacts
  <1>3. cur \in Nat /\ cur \in 1..cur /\ k \in Nat /\ scopes[k] \in Scope
        /\ rsp >= -StackSize
    BY <1>2, CurFacts, CurNat
  <1>4. id \in Int
    BY <1>3, ScopeFields, FramesAssumption DEF IdAddresses
  <1>5. /\ loc' \in Locals /\ loc'.at = cur /\ loc'.goal = k /\ loc'.id = id
        /\ loc'.addr = -id /\ loc'.links = 0 /\ loc'.crossed = 0
        /\ loc'.pushed = FALSE
    <2>1. -id \in Int /\ cur \in Nat /\ k \in Nat /\ Idle \in Locals
      BY <1>3, <1>4, IdleType
    <2>2. loc' \in Locals
      BY <1>1, <1>4, <2>1 DEF Locals
    <2>3. /\ loc'.at = cur /\ loc'.goal = k /\ loc'.id = id
          /\ loc'.addr = -id
      BY <1>1, <1>4, <2>1 DEF Locals
    <2>4. /\ loc'.links = Idle.links /\ loc'.crossed = Idle.crossed
          /\ loc'.pushed = Idle.pushed
      BY <1>1, <1>4, <2>1 DEF Locals
    <2>5. QED
      BY <2>2, <2>3, <2>4, IdleType
  <1>6. TypeOK'
    BY <1>1, <1>2, <1>5 DEF TypeOK
  <1>7. /\ Sound' /\ cur' = cur /\ Edge(cur)' = Edge(cur)
        /\ \A j : Fp(j)' = Fp(j)
    BY <1>1, <1>2, SameSound
  <1>8. WalkOK'
    <2>1. scopes'[cur] = currScope /\ currScope' = currScope
      BY <1>1, <1>7 DEF currScope
    <2>2. QED
      BY <1>1, <1>2, <1>3, <1>5, <1>7, <2>1 DEF WalkOK
  <1>9. AccessOK'
    <2>1. rsp - WordSize >= -StackSize
      BY <1>1 DEF Room
    <2>2. Parked(0)'
      BY <1>1, <1>2, <1>3, <1>5, <1>7 DEF Parked
    <2>3. QED
      BY <1>1, <1>2, <1>7, <2>1, <2>2 DEF AccessOK
  <1>10. PhasesOK'
    BY <1>1, <1>2, <1>8, <1>9 DEF PhasesOK, ResolvedOK, HopOK, ReturnOK,
                                  BreakOK, GotoOK, AdjustOK
  <1>11. QED
    BY <1>6, <1>7, <1>10 DEF IInv, Sound

LEMMA WalkScopeStep ==
  ASSUME IInv, WalkScope
  PROVE  IInv'
  <1> DEFINE k == loc.at
             p == scopes[k].parent
             links == IF loc.links = 0 /\ HasLink(k) THEN 1 ELSE loc.links
             addr == IF links = 0 THEN loc.addr
                     ELSE loc.addr + DataSize(p) + LinkSize(k)
             crossed == IF HasLink(k) THEN loc.crossed + 1 ELSE loc.crossed
  <1>1. /\ pc = "walk" /\ k # loc.goal /\ scopes[k].kind # "func"
        /\ UNCHANGED <<scopes, mem, rsp, rbp, pc, cause>>
        /\ loc' = [loc EXCEPT !.at = p, !.links = links, !.addr = addr,
                              !.crossed = crossed]
    BY DEF WalkScope, machine
  <1>2. /\ TypeOK /\ Sound /\ cause = "none" /\ WalkOK /\ AccessOK
        /\ rsp \in Int
    BY <1>1 DEF IInv, Sound, PhasesOK
  <1>3. /\ k \in 1..cur /\ loc.goal \in scopes[k].anc
        /\ scopes[k].anc \subseteq currScope.anc
        /\ loc.links = 0 <=> loc.crossed = 0
    BY <1>1, <1>2 DEF WalkOK
  <1>4. scopes[k].kind \in {"block", "loop"}
    <2>1. k # 1
      BY <1>1, <1>2, <1>3 DEF Sound, ChainOK, GlobalOK
    <2>2. k \in 2..cur
      BY <1>2, <1>3, <2>1, CurNat
    <2>3. QED
      BY <1>1, <1>2, <2>2 DEF Sound, ChainOK, ChildOK
  <1>5. /\ k - 1 \in 1..cur /\ p = k - 1
        /\ scopes[k].anc = scopes[k - 1].anc \cup {k}
        /\ scopes[k].base \in Int /\ scopes[k - 1].base \in Int
        /\ scopes[k - 1].data \in Nat
        /\ scopes[k].base + LinkSize(k) = scopes[k - 1].base - scopes[k - 1].data
        /\ scopes[k].kind = "block" => Fp(k) = Fp(k - 1)
        /\ scopes[k].kind = "loop" =>
             /\ Fp(k) = scopes[k].base /\ scopes[k].base \in Addr
             /\ mem[scopes[k].base] = Fp(k - 1)
    BY <1>2, <1>3, <1>4, ParentFacts
  <1>6. /\ loc \in Locals /\ loc.addr \in Int /\ loc.id \in Int
        /\ loc.crossed \in Nat /\ loc.links \in 0..1 /\ LinkSize(k) \in Int
    BY <1>2, FramesAssumption DEF TypeOK, Locals, LinkSize
  <1>7. p \in Nat /\ links \in 0..1 /\ addr \in Int /\ crossed \in Nat
    <2>1. p \in Nat
      BY <1>2, <1>5, CurNat
    <2>2. scopes[k - 1].arrays \in Nat
      BY <1>2, <1>5, CurNat, ScopeFields
    <2>3. QED
      BY <1>5, <1>6, <2>1, <2>2 DEF DataSize
  <1>8. /\ HasLink(k) <=> scopes[k].kind = "loop"
        /\ LinkSize(k) = IF scopes[k].kind = "loop" THEN WordSize ELSE 0
    BY <1>4 DEF HasLink, LinkSize
  <1>a. /\ links = IF loc.links = 0 /\ HasLink(k) THEN 1 ELSE loc.links
        /\ crossed = IF HasLink(k) THEN loc.crossed + 1 ELSE loc.crossed
        /\ links = 0 => addr = loc.addr
        /\ links # 0 => addr = loc.addr + DataSize(k - 1) + LinkSize(k)
    BY <1>5
  <1>b. DataSize(k - 1) \in Int /\ (NoArrays => DataSize(k - 1) = scopes[k - 1].data)
    <2>1. scopes[k - 1].arrays \in Nat
      BY <1>2, <1>5, CurNat, ScopeFields
    <2>2. k - 1 \in currScope.anc /\ k - 1 # cur
      BY <1>2, <1>3, <1>5, ParentVisible
    <2>3. QED
      BY <1>5, <2>1, <2>2 DEF DataSize, NoArrays
  <1> HIDE DEF links, addr, crossed, p
  <1>9. /\ loc' \in Locals /\ loc'.at = p /\ loc'.goal = loc.goal
        /\ loc'.id = loc.id /\ loc'.links = links /\ loc'.addr = addr
        /\ loc'.crossed = crossed /\ loc'.pushed = loc.pushed
        /\ loc'.lost = loc.lost
    BY <1>1, <1>6, <1>7 DEF Locals
  <1>10. TypeOK'
    BY <1>1, <1>2, <1>9 DEF TypeOK
  <1>11. /\ Sound' /\ cur' = cur /\ Edge(cur)' = Edge(cur)
         /\ \A j : Fp(j)' = Fp(j)
    BY <1>1, <1>2, SameSound
  <1>12. links = 0 <=> crossed = 0
    BY <1>3, <1>6, <1>a
  <1>13. ~loc.lost /\ links = 0 => rbp = Fp(p) /\ addr = -loc.id
    <2>1. links = 0 => loc.links = 0 /\ scopes[k].kind = "block"
      BY <1>4, <1>6, <1>8, <1>a
    <2>2. QED
      BY <1>1, <1>2, <1>5, <1>a, <2>1 DEF WalkOK
  <1>14. ASSUME ~loc.lost, links # 0
         PROVE  /\ rbp \in Addr
                /\ NoArrays => rbp + addr = scopes[p].base - loc.id
                /\ crossed = 1 => mem[rbp] = Fp(p)
    <2>1. CASE loc.links = 0
      <3>1. scopes[k].kind = "loop" /\ rbp = Fp(k) /\ loc.addr = -loc.id
        BY <1>1, <1>2, <1>8, <1>14, <1>a, <2>1 DEF WalkOK
      <3>2. rbp = scopes[k].base /\ rbp \in Addr /\ mem[rbp] = Fp(p)
        BY <1>5, <3>1
      <3>3. NoArrays => addr = -loc.id + scopes[k - 1].data + LinkSize(k)
        BY <1>14, <1>a, <1>b, <3>1
      <3>4. NoArrays => rbp + addr = scopes[k - 1].base - loc.id
        BY <1>5, <1>6, <3>2, <3>3
      <3>5. QED
        BY <1>5, <3>2, <3>4
    <2>2. CASE loc.links # 0
      <3>1. /\ rbp \in Addr
            /\ NoArrays => rbp + loc.addr = scopes[k].base - loc.id
            /\ loc.crossed = 1 => mem[rbp] = Fp(k)
        BY <1>1, <1>2, <1>14, <2>2 DEF WalkOK
      <3>2. rbp \in Int
        BY <3>1, FramesAssumption DEF Addr
      <3>a. NoArrays => addr = loc.addr + scopes[k - 1].data + LinkSize(k)
        BY <1>14, <1>a, <1>b
      <3>3. ASSUME NoArrays PROVE rbp + addr = scopes[k - 1].base - loc.id
        <4> DEFINE l == LinkSize(k)
                   e == scopes[k - 1].data
        <4>1. /\ l \in Int /\ e \in Int /\ addr = loc.addr + e + l
              /\ scopes[k].base + l = scopes[k - 1].base - e
          BY <1>5, <1>6, <3>3, <3>a
        <4> HIDE DEF l, e
        <4>2. QED
          BY <1>5, <1>6, <3>1, <3>2, <3>3, <4>1
      <3>4. crossed = 1 => mem[rbp] = Fp(p)
        <4>1. crossed = 1 => loc.crossed = 1 /\ scopes[k].kind = "block"
          BY <1>3, <1>4, <1>6, <1>8, <1>a, <2>2
        <4>2. QED
          BY <1>5, <3>1, <4>1
      <3>5. QED
        BY <1>5, <3>1, <3>3, <3>4
    <2>3. QED
      BY <2>1, <2>2
  <1>15. /\ p \in 1..cur /\ loc.goal \in scopes[p].anc
         /\ scopes[p].anc \subseteq currScope.anc
    BY <1>1, <1>3, <1>5
  <1>16. WalkOK'
    <2>1. currScope' = currScope /\ NoArrays' = NoArrays
      BY <1>1, <1>9, <1>11 DEF currScope, NoArrays
    <2>2. QED
      BY <1>1, <1>9, <1>11, <1>12, <1>13, <1>14, <1>15, <2>1 DEF WalkOK
  <1>17. AccessOK'
    BY <1>1, <1>2, <1>9, <1>11 DEF AccessOK, Parked
  <1>18. PhasesOK'
    BY <1>1, <1>2, <1>16, <1>17 DEF PhasesOK, ResolvedOK, HopOK, ReturnOK,
                                  BreakOK, GotoOK, AdjustOK
  <1>19. QED
    BY <1>10, <1>11, <1>18 DEF IInv, Sound

\* A loop or a func: the word in its frame is the frame of its parent.
LEMMA LinkFacts ==
  ASSUME TypeOK, Sound, cause = "none", NEW k \in 1..cur, HasLink(k)
  PROVE  /\ scopes[k].parent \in 1..cur
         /\ scopes[k].anc = scopes[scopes[k].parent].anc \cup {k}
         /\ scopes[k].base \in Addr /\ scopes[k].base \in Int
         /\ Fp(k) = scopes[k].base /\ FrameOf(k) = scopes[k].base
         /\ mem[scopes[k].base] = Fp(scopes[k].parent)
         /\ scopes[k].frameScope = k /\ k # 0
  <1>1. cur \in Nat \ {0} /\ scopes[k] \in Scope
    BY CurNat
  <1>2. k \in 2..cur /\ k # 0
    BY <1>1 DEF Sound, ChainOK, GlobalOK, HasLink
  <1>3. ChildOK(k) /\ LinkSaved(k)
    BY <1>2 DEF Sound, ChainOK, SavedLinks
  <1>4. scopes[k].parent \in 1..cur
    BY <1>1, <1>2, <1>3 DEF ChildOK, Parent
  <1>5. /\ scopes[k].anc = scopes[scopes[k].parent].anc \cup {k}
        /\ scopes[k].frameScope = k
    BY <1>3 DEF ChildOK, Parent
  <1>6. /\ scopes[k].base <= 0 /\ Edge(k) >= -StackSize
        /\ scopes[k].base \in Int /\ scopes[k].data \in Nat
    BY <1>1, ScopeFields DEF Sound, SpacingOK
  <1>7. scopes[k].base \in Addr
    BY <1>6, FramesAssumption DEF Edge, Addr
  <1>8. Fp(k) = scopes[k].base /\ FrameOf(k) = scopes[k].base
    BY <1>2, <1>5 DEF Fp, FrameOf
  <1>9. scopes[k].kind = "loop" => scopes[k].parent = k - 1
    BY <1>3 DEF ChildOK, Parent
  <1>10. mem[scopes[k].base] = Fp(scopes[k].parent)
    BY <1>3, <1>9 DEF HasLink, LinkSaved
  <1>11. QED
    BY <1>2, <1>4, <1>5, <1>6, <1>7, <1>8, <1>10

LEMMA WalkFuncStep ==
  ASSUME IInv, WalkFunc
  PROVE  IInv'
  <1> DEFINE k == loc.at
             p == scopes[k].parent
             lost == loc.lost \/ loc.crossed > 1
             a == rsp - WordSize
  <1>1. /\ pc = "walk" /\ k # loc.goal /\ scopes[k].kind = "func"
        /\ IF loc.pushed THEN UNCHANGED <<rsp, mem>>
           ELSE rsp' = a /\ mem' = Store(mem, a, rbp)
        /\ rbp' = IF loc.links = 0 THEN Load(rbp) ELSE Load(Load(rbp))
        /\ UNCHANGED <<scopes, pc, cause>>
        /\ loc' = [loc EXCEPT !.at = p, !.pushed = TRUE, !.links = 0,
                     !.addr = -loc.id, !.crossed = 0, !.lost = lost]
    BY DEF WalkFunc
  <1>2. /\ TypeOK /\ Sound /\ cause = "none" /\ WalkOK /\ AccessOK
        /\ rsp \in Int
    BY <1>1 DEF IInv, Sound, PhasesOK
  <1>3. /\ k \in 1..cur /\ loc.goal \in scopes[k].anc
        /\ scopes[k].anc \subseteq currScope.anc
        /\ loc.links = 0 <=> loc.crossed = 0
    BY <1>1, <1>2 DEF WalkOK
  <1>4. /\ p \in 1..cur /\ scopes[k].anc = scopes[p].anc \cup {k}
        /\ scopes[k].base \in Addr /\ Fp(k) = scopes[k].base
        /\ mem[scopes[k].base] = Fp(p)
    BY <1>1, <1>2, <1>3, LinkFacts DEF HasLink
  <1>5. /\ loc \in Locals /\ loc.id \in Int /\ -loc.id \in Int
        /\ loc.crossed \in Nat /\ p \in Nat /\ lost \in BOOLEAN
        /\ mem \in [Addr -> Word] /\ rsp \in Word /\ rbp \in Word
    <2>1. loc \in Locals /\ mem \in [Addr -> Word] /\ rsp \in Word /\ rbp \in Word
      BY <1>2 DEF TypeOK
    <2>2. loc.id \in Int /\ -loc.id \in Int /\ loc.crossed \in Nat
      BY <2>1 DEF Locals
    <2>3. lost \in BOOLEAN
      OBVIOUS
    <2>4. p \in Nat
      BY <1>2, <1>4, CurNat
    <2>5. QED
      BY <2>1, <2>2, <2>3, <2>4
  <1>6. cur \in 1..cur /\ Edge(cur) \in Int /\ Edge(cur) <= 0
        /\ Fp(cur) \in Int
    BY <1>2, CurFacts
  <1>7. /\ rsp = Edge(cur) - 0 - (IF loc.pushed THEN WordSize ELSE 0)
        /\ rsp >= -StackSize
        /\ loc.pushed => mem[rsp] = Fp(cur)
        /\ ~loc.pushed => rbp = Fp(cur) /\ rsp - WordSize >= -StackSize
    BY <1>1, <1>2 DEF AccessOK, Parked
  <1>8. /\ rsp' = Edge(cur) - 0 - WordSize /\ rsp' >= -StackSize /\ rsp' \in Int
        /\ mem'[rsp'] = Fp(cur) /\ mem' \in [Addr -> Word]
        /\ \A x \in Addr : x >= Edge(cur) => mem'[x] = mem[x]
    <2>1. CASE loc.pushed
      BY <1>1, <1>5, <1>2, <1>7, <2>1
    <2>2. CASE ~loc.pushed
      <3>1. /\ a \in Addr /\ Edge(cur) >= a + WordSize /\ rsp = Edge(cur)
            /\ a = Edge(cur) - 0 - WordSize /\ a \in Int /\ a >= -StackSize
        BY <1>6, <1>7, <2>2, FramesAssumption DEF Addr
      <3>2. rsp' = a /\ mem' = Store(mem, a, rbp)
        BY <1>1, <2>2
      <3> HIDE DEF a
      <3>3. /\ mem' \in [Addr -> Word] /\ mem'[a] = rbp
            /\ \A x \in Addr : x >= Edge(cur) => mem'[x] = mem[x]
        BY <1>2, <1>5, <1>6, <3>1, <3>2, StoreBelow
      <3>4. QED
        BY <1>7, <2>2, <3>1, <3>2, <3>3
    <2>3. QED
      BY <2>1, <2>2
  <1>9. rbp' \in Word
    BY <1>1, <1>2, <1>5, LoadType
  <1>10. ~lost => rbp' = Fp(p)
    <2> SUFFICES ASSUME ~lost
                 PROVE  rbp' = Fp(p)
      OBVIOUS
    <2>1. ~loc.lost /\ loc.crossed \in {0, 1}
      BY <1>5
    <2>2. CASE loc.links = 0
      <3>1. rbp = Fp(k)
        BY <1>1, <1>2, <2>1, <2>2 DEF WalkOK
      <3>2. QED
        BY <1>1, <1>4, <2>2, <3>1 DEF Load
    <2>3. CASE loc.links # 0
      <3>1. loc.crossed = 1
        BY <1>3, <2>1, <2>3
      <3>2. rbp \in Addr /\ mem[rbp] = Fp(k)
        BY <1>1, <1>2, <2>1, <2>3, <3>1 DEF WalkOK
      <3>3. Load(rbp) = scopes[k].base
        BY <1>4, <3>2 DEF Load
      <3>4. QED
        BY <1>1, <1>4, <2>3, <3>3 DEF Load
    <2>4. QED
      BY <2>2, <2>3
  <1> HIDE DEF p, lost
  <1>11. /\ loc' \in Locals /\ loc'.at = p /\ loc'.goal = loc.goal
         /\ loc'.id = loc.id /\ loc'.links = 0 /\ loc'.addr = -loc.id
         /\ loc'.crossed = 0 /\ loc'.pushed = TRUE /\ loc'.lost = lost
    <2>1. 0 \in 0..1 /\ 0 \in Nat /\ TRUE \in BOOLEAN
      OBVIOUS
    <2>2. loc' \in Locals
      BY <1>1, <1>5, <2>1 DEF Locals
    <2>3. /\ loc'.at = p /\ loc'.goal = loc.goal /\ loc'.id = loc.id
          /\ loc'.links = 0
      BY <1>1, <1>5, <2>1 DEF Locals
    <2>4. /\ loc'.addr = -loc.id
          /\ loc'.crossed = 0 /\ loc'.pushed = TRUE /\ loc'.lost = lost
      BY <1>1, <1>5, <2>1 DEF Locals
    <2>5. QED
      BY <2>2, <2>3, <2>4
  <1>12. TypeOK'
    BY <1>1, <1>2, <1>8, <1>9, <1>11 DEF TypeOK, Word
  <1>13. /\ Sound' /\ cur' = cur /\ Edge(cur)' = Edge(cur)
         /\ \A j : Fp(j)' = Fp(j)
    BY <1>1, <1>2, <1>8, SameSound
  <1>14. WalkOK'
    <2>1. /\ loc.goal \in scopes[p].anc /\ scopes[p].anc \subseteq currScope.anc
          /\ currScope' = currScope
      BY <1>1, <1>3, <1>4, <1>13 DEF currScope
    <2>2. QED
      BY <1>1, <1>4, <1>10, <1>11, <1>13, <2>1 DEF WalkOK
  <1>15. AccessOK'
    BY <1>8, <1>11, <1>13 DEF AccessOK, Parked
  <1>16. PhasesOK'
    BY <1>1, <1>2, <1>8, <1>14, <1>15 DEF PhasesOK, ResolvedOK, HopOK,
                                  ReturnOK, BreakOK, GotoOK, AdjustOK
  <1>17. QED
    BY <1>12, <1>13, <1>16 DEF IInv, Sound

LEMMA WalkEndStep ==
  ASSUME IInv, WalkEnd
  PROVE  IInv'
  <1>1. /\ pc = "walk" /\ loc.at = loc.goal
        /\ pc' = IF loc.links = 0 THEN "adjust" ELSE "resolved"
        /\ UNCHANGED <<scopes, mem, rsp, rbp, loc, cause>>
    BY DEF WalkEnd, machine
  <1>2. /\ TypeOK /\ Sound /\ cause = "none" /\ WalkOK /\ AccessOK
        /\ rsp \in Int
    BY <1>1 DEF IInv, Sound, PhasesOK
  <1>3. TypeOK'
    BY <1>1, <1>2 DEF TypeOK
  <1>4. /\ Sound' /\ cur' = cur /\ Edge(cur)' = Edge(cur)
        /\ \A j : Fp(j)' = Fp(j)
    BY <1>1, <1>2, SameSound
  <1>5. AccessOK'
    BY <1>1, <1>2, <1>4 DEF AccessOK, Parked
  <1>6. currScope' = currScope /\ NoArrays' = NoArrays
    BY <1>1, <1>4 DEF currScope, NoArrays
  <1>7. loc.goal \in 1..cur /\ scopes[loc.at].base \in Int /\ loc.id \in Int
    BY <1>1, <1>2, CurNat, ScopeFields DEF WalkOK, TypeOK, Locals
  <1>8. AdjustOK'
    <2>1. ~loc.lost /\ loc.links = 0 =>
            scopes[loc.at].base + loc.addr = scopes[loc.goal].base - loc.id
      BY <1>1, <1>2, <1>7 DEF WalkOK
    <2>2. QED
      BY <1>1, <1>2, <1>4, <1>6, <1>7, <2>1 DEF AdjustOK, WalkOK
  <1>9. ResolvedOK'
    <2>1. \A a \in Addr : a \in Int
      BY FramesAssumption DEF Addr
    <2>2. QED
      BY <1>1, <1>2, <1>4, <1>6, <1>7, <2>1 DEF ResolvedOK, WalkOK
  <1>10. PhasesOK'
    BY <1>1, <1>2, <1>5, <1>8, <1>9 DEF PhasesOK, HopOK, ReturnOK, BreakOK, GotoOK,
                                        WalkOK
  <1>11. QED
    BY <1>3, <1>4, <1>10 DEF IInv, Sound

LEMMA AdjustStep ==
  ASSUME IInv, Adjust
  PROVE  IInv'
  <1> DEFINE k == loc.at
             p == scopes[k].parent
             addr == loc.addr - DataSize(p)
  <1>1. /\ pc = "adjust" /\ UNCHANGED <<scopes, mem, rsp, rbp, cause>>
        /\ IF HasLink(k) \/ p = 0
             THEN pc' = "resolved" /\ UNCHANGED loc
             ELSE /\ loc' = [loc EXCEPT !.at = p, !.addr = addr]
                  /\ pc' = pc
    BY DEF Adjust, machine
  <1>2. /\ TypeOK /\ Sound /\ cause = "none" /\ AdjustOK /\ AccessOK
        /\ rsp \in Int
    BY <1>1 DEF IInv, Sound, PhasesOK
  <1>3. /\ k \in 1..cur /\ loc.goal \in 1..cur
        /\ scopes[k].anc \subseteq currScope.anc
        /\ ~loc.lost =>
             /\ rbp = Fp(k)
             /\ NoArrays =>
                  scopes[k].base + loc.addr = scopes[loc.goal].base - loc.id
    BY <1>1, <1>2 DEF AdjustOK
  <1>4. /\ Sound' /\ cur' = cur /\ Edge(cur)' = Edge(cur)
        /\ \A j : Fp(j)' = Fp(j)
    BY <1>1, <1>2, SameSound
  <1>5. CASE HasLink(k) \/ p = 0
    <2>1. pc' = "resolved" /\ UNCHANGED loc
      BY <1>1, <1>5
    <2>2. TypeOK'
      BY <1>1, <1>2, <2>1 DEF TypeOK
    <2>3. AccessOK'
      BY <1>1, <1>2, <1>4, <2>1 DEF AccessOK, Parked
    <2>4. Fp(k) = scopes[k].base
      <3>1. CASE HasLink(k)
        BY <1>2, <1>3, <3>1, LinkFacts
      <3>2. CASE p = 0
        <4>1. k = 1
          BY <1>2, <1>3, <3>2, CurNat DEF Sound, ChainOK, ChildOK, Parent
        <4>2. QED
          BY <1>2, <4>1 DEF Sound, ChainOK, GlobalOK, Fp, FrameOf
      <3>3. QED
        BY <1>5, <3>1, <3>2
    <2>5. ResolvedOK'
      <3>1. NoArrays' = NoArrays
        BY <1>1, <1>4, <2>1 DEF currScope, NoArrays
      <3>2. scopes[k].base \in Int
        BY <1>2, <1>3, CurNat, ScopeFields
      <3>3. QED
        BY <1>1, <1>3, <1>4, <2>1, <2>4, <3>1, <3>2 DEF ResolvedOK
    <2>6. PhasesOK'
      BY <1>1, <1>2, <2>1, <2>3, <2>5 DEF PhasesOK, HopOK, ReturnOK, BreakOK,
                                          GotoOK, WalkOK, AdjustOK
    <2>7. QED
      BY <1>4, <2>2, <2>6 DEF IInv, Sound
  <1>6. CASE ~HasLink(k) /\ p # 0
    <2>1. /\ loc' = [loc EXCEPT !.at = p, !.addr = addr] /\ pc' = pc
      BY <1>1, <1>6
    <2>2. scopes[k].kind = "block"
      <3>1. k # 1
        BY <1>2, <1>6 DEF Sound, ChainOK, GlobalOK
      <3>2. k \in 2..cur
        BY <1>2, <1>3, <3>1, CurNat
      <3>3. QED
        BY <1>2, <1>6, <3>2 DEF Sound, ChainOK, ChildOK, HasLink
    <2>3. /\ k - 1 \in 1..cur /\ p = k - 1
          /\ scopes[k].anc = scopes[k - 1].anc \cup {k}
          /\ scopes[k].base \in Int /\ scopes[k - 1].base \in Int
          /\ scopes[k - 1].data \in Nat
          /\ scopes[k].base + LinkSize(k) = scopes[k - 1].base - scopes[k - 1].data
          /\ Fp(k) = Fp(k - 1)
      BY <1>2, <1>3, <2>2, ParentFacts
    <2>4. /\ loc \in Locals /\ loc.addr \in Int /\ loc.id \in Int
          /\ p \in Nat /\ addr \in Int /\ LinkSize(k) = 0
      <3>1. loc \in Locals
        BY <1>2 DEF TypeOK
      <3>2. loc.addr \in Int /\ loc.id \in Int
        BY <3>1 DEF Locals
      <3>3. p \in Nat /\ LinkSize(k) = 0
        BY <1>2, <1>6, <2>3, CurNat DEF LinkSize
      <3>4. DataSize(p) \in Int
        BY <1>2, <2>3, CurNat, ScopeFields DEF DataSize
      <3>5. QED
        BY <2>3, <3>1, <3>2, <3>3, <3>4
    <2>5. NoArrays => scopes[p].base + addr = scopes[k].base + loc.addr
      <3>1. p \in currScope.anc /\ p # cur
        BY <1>2, <1>3, <2>3, ParentVisible
      <3>2. NoArrays => DataSize(p) = scopes[k - 1].data
        BY <2>3, <3>1 DEF NoArrays, DataSize
      <3>3. QED
        BY <2>3, <2>4, <3>2
    <2> HIDE DEF p, addr
    <2>6. /\ loc' \in Locals /\ loc'.at = p /\ loc'.goal = loc.goal
          /\ loc'.addr = addr /\ loc'.id = loc.id /\ loc'.lost = loc.lost
          /\ loc'.pushed = loc.pushed
      BY <2>1, <2>4 DEF Locals
    <2>7. TypeOK'
      BY <1>1, <1>2, <2>1, <2>6 DEF TypeOK
    <2>8. AdjustOK'
      <3>1. currScope' = currScope /\ NoArrays' = NoArrays
        BY <1>1, <1>4, <2>6 DEF currScope, NoArrays
      <3>2. scopes[p].anc \subseteq currScope.anc
        BY <1>3, <2>3
      <3>3. QED
        BY <1>1, <1>3, <1>4, <2>1, <2>3, <2>5, <2>6, <3>1, <3>2 DEF AdjustOK
    <2>9. AccessOK'
      BY <1>1, <1>2, <1>4, <2>1, <2>6 DEF AccessOK, Parked
    <2>10. PhasesOK'
      BY <1>1, <1>2, <2>1, <2>8, <2>9 DEF PhasesOK, ResolvedOK, HopOK,
                                  ReturnOK, BreakOK, GotoOK, WalkOK
    <2>11. QED
      BY <1>4, <2>7, <2>10 DEF IInv, Sound
  <1>7. QED
    BY <1>5, <1>6

LEMMA AccessStep ==
  ASSUME IInv, Access
  PROVE  IInv'
  <1>1. /\ pc = "resolved" /\ pc' = "run" /\ loc' = Idle
        /\ UNCHANGED <<scopes, cause>>
        /\ IF loc.pushed
             THEN rsp' = rsp + WordSize /\ rbp' = Load(rsp)
                  /\ mem' = Freed(mem, rsp')
             ELSE UNCHANGED <<mem, rsp, rbp>>
    BY DEF Access, machine
  <1>2. /\ TypeOK /\ Sound /\ cause = "none" /\ AccessOK /\ rsp \in Int
    BY <1>1 DEF IInv, Sound, PhasesOK
  <1>3. /\ cur \in 1..cur /\ Edge(cur) \in Int /\ Edge(cur) <= 0
        /\ Fp(cur) \in Int
    BY <1>2, CurFacts
  <1>4. /\ rsp = Edge(cur) - 0 - (IF loc.pushed THEN WordSize ELSE 0)
        /\ rsp >= -StackSize
        /\ loc.pushed => mem[rsp] = Fp(cur)
        /\ ~loc.pushed => rbp = Fp(cur)
    BY <1>1, <1>2 DEF AccessOK, Parked
  <1>5. /\ rsp' = Edge(cur) /\ rbp' = Fp(cur) /\ mem' \in [Addr -> Word]
        /\ \A x \in Addr : x >= Edge(cur) => mem'[x] = mem[x]
    <2>1. CASE loc.pushed
      <3>1. rsp \in Addr /\ rsp + WordSize = Edge(cur)
        BY <1>2, <1>3, <1>4, <2>1, FramesAssumption DEF Addr
      <3>2. rsp' = Edge(cur) /\ rbp' = Fp(cur) /\ mem' = Freed(mem, Edge(cur))
        BY <1>1, <1>4, <2>1, <3>1 DEF Load
      <3>3. mem \in [Addr -> Word] /\ Edge(cur) \in Word
        BY <1>2, <1>3 DEF TypeOK, Word
      <3>4. QED
        BY <1>3, <3>2, <3>3, FreedFacts
    <2>2. CASE ~loc.pushed
      BY <1>1, <1>2, <1>3, <1>4, <2>2 DEF TypeOK
    <2>3. QED
      BY <2>1, <2>2
  <1>6. /\ Sound' /\ cur' = cur /\ Edge(cur)' = Edge(cur)
        /\ \A j : Fp(j)' = Fp(j)
    BY <1>1, <1>2, <1>5, SameSound
  <1>7. TypeOK'
    BY <1>1, <1>2, <1>3, <1>5, IdleType DEF TypeOK, Word
  <1>8. PhasesOK'
    <2>1. FrameOK' /\ rsp' \in Int
      BY <1>3, <1>5, <1>6 DEF FrameOK
    <2>2. QED
      BY <1>1, <2>1, RunPhases
  <1>9. QED
    BY <1>6, <1>7, <1>8 DEF IInv, Sound

LEMMA CallBeginStep ==
  ASSUME IInv, NEW d \in 1..cur, NEW args \in ArgSizes, NEW saves \in SaveSizes,
         NEW ret \in RetSizes, CallBegin(d, args, saves, ret)
  PROVE  IInv'
  <1> DEFINE n == ret + saves + args
             below == rsp - ret - saves - args
             f == currScope.frameScope
             push == f # scopes[d].frameScope
             pushed == Clobber(mem, below, n)
  <1>1. /\ Running /\ d \in currScope.anc /\ Room(n + 4 * WordSize)
        /\ mem' = IF push THEN Store(pushed, below - WordSize, rbp) ELSE pushed
        /\ rsp' = IF push THEN below - WordSize ELSE below
        /\ pc' = "hop" /\ UNCHANGED <<scopes, rbp, cause>>
        /\ loc' = [Idle EXCEPT !.at = f, !.goal = d, !.pushed = push,
                     !.args = args, !.saves = saves, !.ret = ret]
    BY DEF CallBegin, Visible
  <1>2. /\ TypeOK /\ Sound /\ cause = "none"
        /\ rsp = Edge(cur) /\ rbp = Fp(cur) /\ rsp \in Int
        /\ mem \in [Addr -> Word] /\ rbp \in Word
    BY <1>1, RunFacts DEF TypeOK
  <1>3. cur \in Nat /\ cur \in 1..cur /\ rsp <= 0
    BY <1>2, CurFacts
  <1>4. /\ args \in Nat /\ saves \in Nat /\ ret \in Nat /\ WordSize \in Nat \ {0}
        /\ StackSize \in Nat
    BY FramesAssumption
  <1>5. n \in Nat /\ below = rsp - n /\ below \in Int
        /\ rsp - (n + 4 * WordSize) >= -StackSize
    BY <1>1, <1>2, <1>4 DEF Room
  <1>6. AncestryOK(cur) /\ f \in Nat /\ d \in Nat /\ push \in BOOLEAN
    BY <1>2, <1>3, CurFacts, ScopeFields DEF Sound, AncestorsOK, currScope
  <1> HIDE DEF n, below
  <1>7. pushed \in [Addr -> Word] /\ \A x \in Addr : x >= rsp => pushed[x] = mem[x]
    <2>1. below + n = rsp /\ n \in Int
      BY <1>2, <1>5
    <2>2. QED
      BY <1>2, <1>5, <2>1, ClobberFacts
  <1> HIDE DEF pushed
  <1>8. /\ rsp' = Edge(cur) - n - (IF push THEN WordSize ELSE 0)
        /\ rsp' \in Int /\ rsp' - 3 * WordSize >= -StackSize /\ rsp' >= -StackSize
        /\ push => mem'[rsp'] = Fp(cur)
        /\ mem' \in [Addr -> Word]
        /\ \A x \in Addr : x >= Edge(cur) => mem'[x] = mem[x]
    <2>1. CASE push
      <3>1. mem' = Store(pushed, below - WordSize, rbp) /\ rsp' = below - WordSize
        BY <1>1, <2>1
      <3>2. /\ rsp' \in Int /\ rsp' = Edge(cur) - n - WordSize
            /\ rsp' - 3 * WordSize >= -StackSize /\ rsp' >= -StackSize
            /\ rsp' \in Addr /\ rsp >= rsp' + WordSize
        <4>1. rsp' = rsp - n - WordSize /\ rsp' \in Int
          BY <1>2, <1>4, <1>5, <3>1
        <4>2. /\ rsp' - 3 * WordSize >= -StackSize /\ rsp' >= -StackSize
              /\ rsp' <= 0 /\ rsp >= rsp' + WordSize
          BY <1>2, <1>3, <1>4, <1>5, <4>1
        <4>3. QED
          BY <1>2, <1>4, <4>1, <4>2 DEF Addr
      <3>3. \A x \in Addr : x >= rsp => x >= rsp' + WordSize
        BY <1>2, <1>4, <3>2 DEF Addr
      <3>4. mem' = Store(pushed, rsp', rbp)
        BY <3>1
      <3>5. /\ mem' \in [Addr -> Word] /\ mem'[rsp'] = rbp
            /\ \A x \in Addr : x >= rsp' + WordSize => mem'[x] = pushed[x]
        BY <1>2, <1>7, <3>2, <3>4, StoreFacts
      <3>6. QED
        BY <1>2, <1>7, <2>1, <3>2, <3>3, <3>5
    <2>2. CASE ~push
      <3>1. mem' = pushed /\ rsp' = below
        BY <1>1, <2>2
      <3>2. /\ rsp' \in Int /\ rsp' = Edge(cur) - n - 0
            /\ rsp' - 3 * WordSize >= -StackSize /\ rsp' >= -StackSize
        BY <1>2, <1>4, <1>5, <3>1
      <3>3. QED
        BY <1>2, <1>7, <2>2, <3>1, <3>2
    <2>3. QED
      BY <2>1, <2>2
  <1> HIDE DEF push, f
  <1>9. /\ loc' \in Locals /\ loc'.at = f /\ loc'.goal = d /\ loc'.pushed = push
        /\ loc'.args = args /\ loc'.saves = saves /\ loc'.ret = ret
    <2>1. loc' \in Locals
      BY <1>1, <1>4, <1>6, IdleType DEF Locals
    <2>2. /\ loc'.at = f /\ loc'.goal = d /\ loc'.pushed = push
      BY <1>1, <1>4, <1>6, IdleType DEF Locals
    <2>3. /\ loc'.args = args /\ loc'.saves = saves /\ loc'.ret = ret
      BY <1>1, <1>4, <1>6, IdleType DEF Locals
    <2>4. QED
      BY <2>1, <2>2, <2>3
  <1>10. TypeOK'
    BY <1>1, <1>2, <1>8, <1>9 DEF TypeOK, Word
  <1>11. /\ Sound' /\ cur' = cur /\ Edge(cur)' = Edge(cur)
         /\ \A j : Fp(j)' = Fp(j)
    BY <1>1, <1>2, <1>8, SameSound
  <1>12. HopOK'
    <2>1. d \in currScope'.anc /\ f \in 0..cur
      <3>1. currScope' = currScope
        BY <1>1, <1>11 DEF currScope
      <3>2. f \in 0..cur
        BY <1>6 DEF AncestryOK, f, currScope
      <3>3. QED
        BY <1>1, <3>1, <3>2
    <2>2. f # scopes[d].frameScope => f # 0 /\ d \in scopes[Parent(f)].anc
      BY <1>1, <1>6 DEF AncestryOK, f, currScope
    <2>3. f # 0 => HasLink(f) /\ scopes[f].frameScope = f
      <3>1. f # 0 => f \in 1..cur /\ HasLink(f)
        BY <1>3, <1>6 DEF AncestryOK, f, currScope
      <3>2. QED
        BY <1>2, <3>1, LinkFacts
    <2>4. rbp = FrameOf(f)
      BY <1>2 DEF Fp, f, currScope
    <2>5. Parked(loc.ret + loc.saves + loc.args)'
      BY <1>8, <1>9, <1>11 DEF Parked, n
    <2>6. ~push => f = currScope.frameScope /\ f = scopes[d].frameScope
      BY DEF push, f
    <2>7. /\ Parent(f)' = Parent(f) /\ HasLink(f)' = HasLink(f)
          /\ FrameOf(f)' = FrameOf(f) /\ currScope' = currScope
      <3>1. currScope' = currScope /\ f' = f
        BY <1>1, <1>11 DEF currScope, f
      <3>2. QED
        BY <1>1, <3>1 DEF Parent, HasLink, FrameOf
    <2> HIDE DEF f, push
    <2>8. QED
      BY <1>1, <1>8, <1>9, <1>11, <2>1, <2>2, <2>3, <2>4, <2>5, <2>6, <2>7
      DEF HopOK, Parent, HasLink, FrameOf
  <1>13. PhasesOK'
    BY <1>1, <1>2, <1>8, <1>12 DEF PhasesOK, ResolvedOK, WalkOK, AccessOK,
                                  ReturnOK, BreakOK, GotoOK, AdjustOK
  <1>14. QED
    BY <1>10, <1>11, <1>13 DEF IInv, Sound

LEMMA HopStep ==
  ASSUME IInv, Hop
  PROVE  IInv'
  <1> DEFINE k == loc.at
             d == loc.goal
             p == scopes[k].parent
             f == scopes[p].frameScope
  <1>1. /\ pc = "hop" /\ k # scopes[d].frameScope /\ rbp' = Load(rbp)
        /\ loc' = [loc EXCEPT !.at = f]
        /\ UNCHANGED <<scopes, mem, rsp, pc, cause>>
    BY DEF Hop
  <1>2. /\ TypeOK /\ Sound /\ cause = "none" /\ HopOK /\ rsp \in Int
    BY <1>1 DEF IInv, Sound, PhasesOK
  <1>3. /\ d \in currScope.anc /\ k \in 0..cur /\ k # 0 /\ d \in scopes[p].anc
        /\ HasLink(k) /\ rbp = FrameOf(k)
        /\ Parked(loc.ret + loc.saves + loc.args)
        /\ rsp - 3 * WordSize >= -StackSize
        /\ loc.pushed
    BY <1>1, <1>2 DEF HopOK, Parent
  <1>4. k \in 1..cur
    BY <1>2, <1>3, CurNat
  <1>5. /\ p \in 1..cur /\ scopes[k].base \in Addr
        /\ FrameOf(k) = scopes[k].base /\ mem[scopes[k].base] = Fp(p)
    BY <1>2, <1>3, <1>4, LinkFacts
  <1>6. rbp' = FrameOf(f)
    BY <1>1, <1>3, <1>5 DEF Load, Fp
  <1>7. AncestryOK(p)
    BY <1>2, <1>5 DEF Sound, AncestorsOK
  <1>8. /\ f \in 0..cur /\ f \in Nat
        /\ f # scopes[d].frameScope => f # 0 /\ d \in scopes[Parent(f)].anc
        /\ f # 0 => f \in 1..cur /\ HasLink(f)
    <2>1. f \in 0..p /\ p \in 1..cur /\ cur \in Nat
      BY <1>2, <1>5, <1>7, CurNat DEF AncestryOK
    <2>2. /\ f # scopes[d].frameScope => f # 0 /\ d \in scopes[Parent(f)].anc
          /\ f # 0 => HasLink(f)
      BY <1>3, <1>7 DEF AncestryOK
    <2> HIDE DEF f, p
    <2>3. QED
      BY <2>1, <2>2
  <1>9. f # 0 => scopes[f].frameScope = f
    BY <1>2, <1>8, LinkFacts
  <1>10. loc \in Locals /\ mem \in [Addr -> Word] /\ rbp' \in Word
    BY <1>1, <1>2, LoadType DEF TypeOK
  <1> HIDE DEF f, p
  <1>11. /\ loc' \in Locals /\ loc'.at = f /\ loc'.goal = d
         /\ loc'.pushed = loc.pushed /\ loc'.args = loc.args
         /\ loc'.saves = loc.saves /\ loc'.ret = loc.ret
    BY <1>1, <1>8, <1>10 DEF Locals
  <1>12. TypeOK'
    BY <1>1, <1>2, <1>10, <1>11 DEF TypeOK
  <1>13. /\ Sound' /\ cur' = cur /\ Edge(cur)' = Edge(cur)
         /\ \A j : Fp(j)' = Fp(j)
    BY <1>1, <1>2, SameSound
  <1>14. HopOK'
    <2>1. currScope' = currScope
      BY <1>1, <1>13 DEF currScope
    <2>2. Parked(loc.ret + loc.saves + loc.args)'
      BY <1>1, <1>3, <1>11, <1>13 DEF Parked
    <2>3. QED
      BY <1>1, <1>3, <1>6, <1>8, <1>9, <1>11, <1>13, <2>1, <2>2
      DEF HopOK, Parent, HasLink, FrameOf
  <1>15. PhasesOK'
    BY <1>1, <1>2, <1>14 DEF PhasesOK, ResolvedOK, WalkOK, AccessOK,
                                  ReturnOK, BreakOK, GotoOK, AdjustOK
  <1>16. QED
    BY <1>12, <1>13, <1>15 DEF IInv, Sound

\* What a store leaves alone on both sides.
LEMMA StoreBothSides ==
  ASSUME NEW m \in [Addr -> Word], NEW a \in Int, NEW n \in Nat,
         NEW x \in Addr, x <= a - WordSize \/ x >= a + n
  PROVE  Clobber(m, a, n)[x] = m[x]
  <1>1. x \in Int /\ WordSize \in Nat
    BY FramesAssumption DEF Addr
  <1>2. ~(x > a - WordSize /\ x < a + n)
    BY <1>1
  <1>3. QED
    BY <1>2 DEF Clobber

LEMMA CallEnterStep ==
  ASSUME IInv, CallEnter
  PROVE  IInv'
  <1> DEFINE d == loc.goal
             n == loc.ret + loc.saves + loc.args
             top == IF loc.pushed THEN rsp + WordSize ELSE rsp
             caller == IF loc.pushed THEN Load(rsp) ELSE rbp
             base == top - 3 * WordSize
             linked == Store(mem, base, rbp)
             called == Clobber(linked, top - WordSize, WordSize)
             link == top - 2 * WordSize
             s == Child("func", d, base, loc)
  <1>1. /\ pc = "hop" /\ loc.at = scopes[d].frameScope
        /\ mem' = Store(called, link, caller)
        /\ rsp' = base /\ rbp' = base /\ scopes' = Append(scopes, s)
        /\ pc' = "run" /\ loc' = Idle /\ UNCHANGED cause
    BY DEF CallEnter
  <1>2. /\ TypeOK /\ Sound /\ cause = "none" /\ HopOK /\ rsp \in Int
        /\ mem \in [Addr -> Word] /\ rbp \in Word /\ loc \in Locals
    BY <1>1 DEF IInv, Sound, PhasesOK, TypeOK
  <1>3. /\ d \in currScope.anc /\ rbp = FrameOf(loc.at)
        /\ rsp = Edge(cur) - n - (IF loc.pushed THEN WordSize ELSE 0)
        /\ rsp >= -StackSize
        /\ loc.pushed => mem[rsp] = Fp(cur)
        /\ rsp - 3 * WordSize >= -StackSize
        /\ ~loc.pushed => loc.at = currScope.frameScope
    BY <1>1, <1>2 DEF HopOK, Parked
  <1>4. /\ cur \in Nat \ {0} /\ cur \in 1..cur /\ scopes[cur] \in Scope
        /\ Edge(cur) \in Int /\ Edge(cur) <= 0 /\ Fp(cur) \in Int
    BY <1>2, CurFacts
  <1>5. d \in 1..cur
    BY <1>2, <1>3, <1>4 DEF Sound, AncestorsOK, AncestryOK, currScope
  <1>6. /\ loc.ret \in Nat /\ loc.saves \in Nat /\ loc.args \in Nat
        /\ WordSize \in Nat \ {0} /\ StackSize \in Nat
    BY <1>2, FramesAssumption DEF Locals
  <1>7. /\ n \in Nat /\ top = Edge(cur) - n /\ top \in Int
        /\ top - 3 * WordSize >= -StackSize
        /\ loc.pushed => rsp \in Addr
    <2>1. n \in Nat
      BY <1>6
    <2> HIDE DEF n
    <2>2. CASE loc.pushed
      <3>1. top = rsp + WordSize /\ rsp = Edge(cur) - n - WordSize
        BY <1>3, <2>2
      <3> HIDE DEF top
      <3>2. /\ top = Edge(cur) - n /\ top \in Int
            /\ top - 3 * WordSize >= -StackSize /\ rsp \in Addr
        <4>1. top = Edge(cur) - n /\ top \in Int
          BY <1>2, <1>4, <1>6, <2>1, <3>1
        <4>2. top - 3 * WordSize >= -StackSize
          BY <1>2, <1>3, <1>6, <3>1
        <4>3. rsp \in Addr
          <5>1. rsp >= -StackSize
            BY <1>3
          <5>2. QED
            BY <1>2, <1>4, <1>6, <2>1, <3>1, <5>1 DEF Addr
        <4>4. QED
          BY <4>1, <4>2, <4>3
      <3>3. QED
        BY <2>1, <3>2
    <2>3. CASE ~loc.pushed
      <3>1. top = rsp /\ rsp = Edge(cur) - n - 0
        BY <1>3, <2>3
      <3> HIDE DEF top
      <3>2. /\ top = Edge(cur) - n /\ top \in Int
            /\ top - 3 * WordSize >= -StackSize
        BY <1>2, <1>3, <1>4, <1>6, <2>1, <3>1
      <3>3. QED
        BY <2>1, <2>3, <3>2
    <2>4. QED
      BY <2>2, <2>3
  <1>8. caller = Fp(cur) /\ caller \in Word /\ rbp = Fp(d)
    <2>1. caller = Fp(cur)
      <3>1. CASE loc.pushed
        <4>1. caller = Load(rsp) /\ rsp \in Addr /\ mem[rsp] = Fp(cur)
          <5>1. caller = Load(rsp)
            BY <3>1
          <5>2. QED
            BY <1>3, <1>7, <3>1, <5>1
        <4>2. QED
          BY <4>1 DEF Load
      <3>2. CASE ~loc.pushed
        BY <1>3, <3>2 DEF Fp, currScope
      <3>3. QED
        BY <3>1, <3>2
    <2>2. rbp = Fp(d)
      BY <1>1, <1>3 DEF Fp
    <2>3. QED
      BY <1>4, <2>1, <2>2 DEF Word
  <1> HIDE DEF n, top, caller
  <1>9. /\ base \in Int /\ base >= -StackSize /\ base \in Addr
        /\ link \in Int /\ link \in Addr /\ base + WordSize = link
        /\ link + WordSize = top - WordSize /\ top <= 0 /\ top <= Edge(cur)
    <2>1. top <= 0 /\ top <= Edge(cur)
      BY <1>4, <1>7
    <2>2. QED
      BY <1>6, <1>7, <2>1 DEF Addr
  <1>10. /\ linked \in [Addr -> Word] /\ linked[base] = rbp
         /\ \A x \in Addr : x >= top => linked[x] = mem[x]
    <2>1. top >= base + WordSize /\ top \in Int
      BY <1>6, <1>7, <1>9
    <2> HIDE DEF base
    <2>2. QED
      BY <1>2, <1>7, <1>9, <2>1, StoreBelow
  <1>11. /\ called \in [Addr -> Word] /\ called[base] = rbp
         /\ \A x \in Addr : x >= top => called[x] = mem[x]
    <2>1. /\ top - WordSize \in Int /\ (top - WordSize) + WordSize = top
          /\ base <= (top - WordSize) - WordSize /\ WordSize \in Int
      BY <1>6, <1>7
    <2>2. called \in [Addr -> Word]
          /\ \A x \in Addr : x >= top => called[x] = linked[x]
      BY <1>10, <2>1, ClobberFacts
    <2>3. called[base] = linked[base]
      BY <1>6, <1>9, <1>10, <2>1, StoreBothSides
    <2>4. QED
      BY <1>10, <2>2, <2>3
  <1> HIDE DEF linked, called
  <1>12. /\ mem' \in [Addr -> Word] /\ mem'[link] = caller
         /\ mem'[base] = rbp
         /\ \A x \in Addr : x >= Edge(cur) => mem'[x] = mem[x]
    <2>1. /\ mem' \in [Addr -> Word] /\ mem'[link] = caller
          /\ \A x \in Addr : x >= link + WordSize => mem'[x] = called[x]
      BY <1>1, <1>8, <1>9, <1>11, StoreFacts
    <2>2. mem'[base] = called[base]
      <3>1. base <= link - WordSize /\ base # link /\ WordSize \in Nat
        BY <1>6, <1>9
      <3>2. Clobber(called, link, WordSize)[base] = called[base]
        BY <1>9, <1>11, <3>1, StoreBothSides
      <3>3. Clobber(called, link, WordSize) \in [Addr -> Word]
        BY <1>9, <1>11, <3>1, ClobberFacts
      <3>4. QED
        BY <1>1, <3>1, <3>2, <3>3 DEF Store
    <2>3. \A x \in Addr : x >= Edge(cur) => x >= top /\ x >= link + WordSize
      BY <1>4, <1>6, <1>7, <1>9 DEF Addr
    <2>4. QED
      BY <1>11, <2>1, <2>2, <2>3
  <1>13. /\ s \in Scope /\ s.kind = "func" /\ s.data = 0 /\ s.base = base
         /\ IsChild(s, d, cur + 1) /\ Below(s) = n + 3 * WordSize
    <2>1. cur + 1 \in Nat /\ d \in Nat /\ scopes[d] \in Scope
      BY <1>2, <1>4, <1>5, CurNat
    <2> HIDE DEF base
    <2>2. s \in Scope
      BY <1>6, <1>9, <2>1, ScopeFields DEF Child, Scope
    <2>3. /\ s.kind = "func" /\ s.data = 0 /\ s.base = base /\ s.parent = d
          /\ s.anc = scopes[d].anc \cup {cur + 1} /\ s.frameScope = cur + 1
          /\ s.func = cur + 1 /\ s.loop = 0
          /\ s.args = loc.args /\ s.saves = loc.saves /\ s.ret = loc.ret
      BY DEF Child
    <2> HIDE DEF s
    <2>4. QED
      BY <1>4, <2>1, <2>2, <2>3 DEF IsChild, Below, n
  <1> HIDE DEF s
  <1>14. /\ Sound' /\ scopes' \in Seq(Scope) /\ scopes' # <<>>
         /\ Edge(cur)' = base /\ Fp(cur)' = base
    <2>1. s.base = Edge(cur) - Below(s) /\ s.base >= -StackSize
      <3>1. s.base = base /\ Below(s) = n + 3 * WordSize
        BY <1>13
      <3>2. base = Edge(cur) - (n + 3 * WordSize) /\ base >= -StackSize
        BY <1>4, <1>6, <1>7, <1>9
      <3> HIDE DEF base
      <3>3. QED
        BY <3>1, <3>2
    <2>2. mem'[s.base] = Fp(d) /\ mem'[s.base + WordSize] = Fp(cur)
      BY <1>8, <1>9, <1>12, <1>13
    <2>3. s.kind # "block" /\ s.kind # "loop"
      BY <1>13
    <2> HIDE DEF base, d, link
    <2>4. /\ Sound' /\ scopes' \in Seq(Scope) /\ scopes' # <<>>
          /\ Edge(cur)' = s.base
          /\ Fp(cur)' = IF s.kind = "block" THEN Fp(d) ELSE s.base
      BY <1>1, <1>2, <1>4, <1>5, <1>12, <1>13, <2>1, <2>2, <2>3, PushSound
    <2>5. QED
      BY <1>13, <2>3, <2>4
  <1>15. TypeOK'
    BY <1>1, <1>2, <1>9, <1>12, <1>14, IdleType DEF TypeOK, Word
  <1>16. PhasesOK'
    <2>1. FrameOK' /\ rsp' \in Int
      BY <1>1, <1>9, <1>14 DEF FrameOK
    <2>2. QED
      BY <1>1, <2>1, RunPhases
  <1>17. QED
    BY <1>14, <1>15, <1>16 DEF IInv, Sound

-----------------------------------------------------------------------------
(* The first state, and every step. *)

LEMMA InitIInv ==
  ASSUME Init
  PROVE  IInv
  <1>1. /\ scopes = <<Global>> /\ mem = [a \in Addr |-> Garbage]
        /\ rsp = 0 /\ rbp = 0 /\ pc = "run" /\ loc = Idle /\ cause = "none"
    BY DEF Init
  <1>2. /\ Global.kind = "global" /\ Global.data = 0 /\ Global.base = 0
        /\ Global.parent = 0 /\ Global.frameScope = 0 /\ Global.func = 0
        /\ Global.loop = 0 /\ Global.anc = {1} /\ Global \in Scope
    BY DEF Global, Scope
  <1>3. scopes \in Seq(Scope) /\ cur = 1 /\ scopes[1] = Global /\ scopes # <<>>
    BY <1>1, <1>2 DEF cur
  <1>4. TypeOK
    BY <1>1, <1>3, IdleType DEF TypeOK, Word
  <1>5. ChainOK
    BY <1>2, <1>3 DEF ChainOK, GlobalOK
  <1>6. AncestorsOK
    BY <1>2, <1>3 DEF AncestorsOK, AncestryOK
  <1>7. SpacingOK
    BY <1>2, <1>3, FramesAssumption DEF SpacingOK, Edge
  <1>8. ScopesNest /\ SavedLinks
    BY <1>3 DEF ScopesNest, SavedLinks
  <1>9. FrameOK
    BY <1>1, <1>2, <1>3 DEF FrameOK, Edge, Fp, FrameOf
  <1>10. PhasesOK
    BY <1>1, <1>9 DEF PhasesOK, ResolvedOK, HopOK, ReturnOK, BreakOK, GotoOK,
                      WalkOK, AdjustOK, AccessOK
  <1>11. QED
    BY <1>4, <1>5, <1>6, <1>7, <1>8, <1>10 DEF IInv

LEMMA StutterIInv ==
  ASSUME IInv, UNCHANGED vars
  PROVE  IInv'
  <1>1. UNCHANGED <<scopes, mem, rsp, rbp, pc, loc, cause>>
    BY DEF vars
  <1>2. /\ cur' = cur /\ currScope' = currScope
        /\ \A k : Edge(k)' = Edge(k) /\ Fp(k)' = Fp(k) /\ FrameOf(k)' = FrameOf(k)
        /\ \A k : Parent(k)' = Parent(k) /\ HasLink(k)' = HasLink(k)
        /\ \A k : LinkSaved(k)' = LinkSaved(k)
        /\ ChainOK' = ChainOK /\ AncestorsOK' = AncestorsOK
        /\ SpacingOK' = SpacingOK
    <2>1. cur' = cur
      BY <1>1 DEF cur
    <2>2. /\ \A k : Edge(k)' = Edge(k) /\ Fp(k)' = Fp(k) /\ FrameOf(k)' = FrameOf(k)
          /\ \A k : Parent(k)' = Parent(k) /\ HasLink(k)' = HasLink(k)
      BY <1>1 DEF Edge, Fp, FrameOf, Parent, HasLink
    <2>3. QED
      BY <1>1, <2>1, <2>2, SameScopes DEF currScope
  <1>3. TypeOK' = TypeOK
    BY <1>1 DEF TypeOK
  <1>4. ScopesNest' = ScopesNest /\ SavedLinks' = SavedLinks
    BY <1>1, <1>2 DEF ScopesNest, SavedLinks
  <1>5. NoArrays' = NoArrays
    BY <1>1, <1>2 DEF NoArrays
  <1>6. \A n : Parked(n)' = Parked(n)
    BY <1>1, <1>2 DEF Parked
  <1>7. PhasesOK'
    <2>1. HopOK' = HopOK
      BY <1>1, <1>2, <1>6 DEF HopOK, Parent, HasLink, FrameOf
    <2>2. ReturnOK' = ReturnOK /\ BreakOK' = BreakOK
      BY <1>1, <1>2 DEF ReturnOK, BreakOK
    <2>3. GotoOK' = GotoOK
      BY <1>1, <1>2 DEF GotoOK, IsBalanced
    <2>4. WalkOK' = WalkOK /\ AdjustOK' = AdjustOK /\ ResolvedOK' = ResolvedOK
      BY <1>1, <1>2, <1>5 DEF WalkOK, AdjustOK, ResolvedOK, Fp, FrameOf
    <2>5. AccessOK' = AccessOK
      BY <1>1, <1>2, <1>6 DEF AccessOK
    <2>6. FrameOK' = FrameOK
      BY <1>1, <1>2 DEF FrameOK
    <2>7. PhasesOK
      BY DEF IInv
    <2>8. QED
      BY <1>1, <2>1, <2>2, <2>3, <2>4, <2>5, <2>6, <2>7 DEF PhasesOK
  <1>8. QED
    BY <1>1, <1>2, <1>3, <1>4, <1>7 DEF IInv

\* Every step of a program, and of the code of a statement, keeps IInv.
THEOREM IInvStep ==
  ASSUME IInv, [Next]_vars
  PROVE  IInv'
  <1>1. CASE OpenBlock
    BY <1>1, OpenBlockStep
  <1>2. CASE CloseBlock
    BY <1>2, CloseBlockStep
  <1>3. CASE OpenLoop
    BY <1>3, OpenLoopStep
  <1>4. CASE NextIteration
    BY <1>4, NextIterationStep
  <1>5. CASE ExitLoop
    BY <1>5, ExitLoopStep
  <1>6. CASE \E n \in VarSizes, own \in ArraySums : Declare(n, own)
    BY <1>6, DeclareStep
  <1>7. CASE \E d \in 1..cur, a \in ArgSizes, s \in SaveSizes, r \in RetSizes :
               CallBegin(d, a, s, r)
    BY <1>7, CallBeginStep
  <1>8. CASE ReturnBegin
    BY <1>8, ReturnBeginStep
  <1>9. CASE BreakBegin
    BY <1>9, BreakBeginStep
  <1>10. CASE \E t \in 1..cur, data \in 0..MaxData, arrays \in ArraySums :
                GotoBegin(t, data, arrays)
    BY <1>10, GotoBeginStep
  <1>11. CASE \E k \in 1..cur : \E id \in IdAddresses(k) : AccessBegin(k, id)
    BY <1>11, AccessBeginStep
  <1>12. CASE Exit
    BY <1>12, ExitStep
  <1>13. CASE Hop
    BY <1>13, HopStep
  <1>14. CASE CallEnter
    BY <1>14, CallEnterStep
  <1>15. CASE LeaveScope
    <2>1. pc \in {"return", "goto"}
      BY <1>15 DEF LeaveScope
    <2>2. QED
      BY <1>15, <2>1, LeaveScopeReturn, LeaveScopeGoto, LeaveScopeUnbalanced
  <1>16. CASE Return
    BY <1>16, ReturnStep
  <1>17. CASE BreakScope
    BY <1>17, BreakScopeStep
  <1>18. CASE Break
    BY <1>18, BreakStep
  <1>19. CASE Goto
    BY <1>19, GotoStep
  <1>20. CASE WalkScope
    BY <1>20, WalkScopeStep
  <1>21. CASE WalkFunc
    BY <1>21, WalkFuncStep
  <1>22. CASE WalkEnd
    BY <1>22, WalkEndStep
  <1>23. CASE Adjust
    BY <1>23, AdjustStep
  <1>24. CASE Access
    BY <1>24, AccessStep
  <1>25. CASE UNCHANGED vars
    BY <1>25, StutterIInv
  <1>26. CASE \E r \in {0} \cup RetSizes : EnterBody(r)
    BY <1>26, EnterBodyStep
  <1>27. CASE StartIteration
    BY <1>27, StartIterationStep
  <1>28. CASE \E r \in RetSizes : SkipCondition(r)
    BY <1>28, SkipConditionStep
  <1>29. CASE \E s \in SaveSizes, r \in RetSizes : SkipCall(s, r)
    BY <1>29, SkipCallStep
  <1>30. QED
    BY <1>1, <1>2, <1>3, <1>4, <1>5, <1>6, <1>7, <1>8, <1>9, <1>10, <1>11,
       <1>12, <1>13, <1>14, <1>15, <1>16, <1>17, <1>18, <1>19, <1>20, <1>21,
       <1>22, <1>23, <1>24, <1>25, <1>26, <1>27, <1>28, <1>29
    DEF Next, Start, Continue

-----------------------------------------------------------------------------
(* The addresses of variables: what the compiler reckons with the arrays   *)
(* that calls returned.                                                    *)

\* The address of the variable declared last in scope s counts at least the
\* variables of s, and at most the arrays returned to it besides.
Reckoned(s) == s.last \in s.data..s.data + s.arrays

AtAccess == pc \in {"walk", "adjust", "resolved"}

LEMMA AddressFacts ==
  AddressOK <=>
    /\ \A k \in 1..cur : Reckoned(scopes[k])
    /\ AtAccess => loc.goal \in 1..cur /\ loc.id \in IdAddresses(loc.goal)
  BY DEF AddressOK, Reckoned, AtAccess, DataSize

LEMMA SameAddress ==
  ASSUME AddressOK, UNCHANGED scopes,
         AtAccess' => loc'.goal \in 1..cur /\ loc'.id \in IdAddresses(loc'.goal)
  PROVE  AddressOK'
  <1>1. cur' = cur /\ \A k : IdAddresses(k)' = IdAddresses(k)
    BY DEF cur, IdAddresses
  <1>2. \A k \in 1..cur' : Reckoned(scopes[k])'
    BY <1>1, AddressFacts DEF Reckoned
  <1>3. QED
    BY <1>1, <1>2 DEF AddressOK, Reckoned, AtAccess, DataSize

LEMMA DropAddress ==
  ASSUME TypeOK, ChainOK, AddressOK, Leave, ~AtAccess'
  PROVE  AddressOK'
  <1>1. currScope.parent \in 0..cur
    <2>1. cur \in Nat \ {0}
      BY CurNat
    <2>2. CASE cur = 1
      BY <2>2 DEF ChainOK, GlobalOK, currScope
    <2>3. CASE cur # 1
      <3>1. ChildOK(cur)
        BY <2>1, <2>3 DEF ChainOK
      <3>2. QED
        BY <2>1, <3>1 DEF ChildOK, Parent, currScope
    <2>4. QED
      BY <2>2, <2>3
  <1>2. ASSUME NEW n \in 0..cur, scopes' = SubSeq(scopes, 1, n)
        PROVE  AddressOK'
    <2>1. cur' = n /\ \A k \in 1..n : scopes'[k] = scopes[k]
      BY <1>2 DEF cur, TypeOK
    <2>2. \A k \in 1..n : k \in 1..cur
      BY <1>2, CurNat
    <2>3. \A k \in 1..n : Reckoned(scopes[k])'
      BY <2>1, <2>2, AddressFacts DEF Reckoned
    <2>4. QED
      BY <2>1, <2>3 DEF AddressOK, Reckoned, AtAccess, DataSize
  <1>3. QED
    BY <1>1, <1>2 DEF Leave

LEMMA PushAddress ==
  ASSUME TypeOK, AddressOK, ~AtAccess',
         NEW kind, NEW p, NEW base, NEW call,
         scopes' = Append(scopes, Child(kind, p, base, call))
  PROVE  AddressOK'
  <1> DEFINE s == Child(kind, p, base, call)
  <1>1. Reckoned(s)
    BY DEF Child, Reckoned
  <1> HIDE DEF s
  <1>2. /\ cur' = cur + 1 /\ scopes'[cur + 1] = s
        /\ \A k \in 1..cur : scopes'[k] = scopes[k]
    BY DEF cur, TypeOK, s
  <1>3. \A k \in 1..cur + 1 : k \in 1..cur \/ k = cur + 1
    BY CurNat
  <1>4. \A k \in 1..cur' : Reckoned(scopes[k])'
    BY <1>1, <1>2, <1>3, AddressFacts DEF Reckoned
  <1>5. QED
    BY <1>4 DEF AddressOK, Reckoned, AtAccess, DataSize

LEMMA EditAddress ==
  ASSUME TypeOK, AddressOK, ~AtAccess', NEW s, Reckoned(s),
         scopes' = [scopes EXCEPT ![cur] = s]
  PROVE  AddressOK'
  <1>1. /\ cur' = cur /\ scopes'[cur] = s
        /\ \A k \in 1..cur : k # cur => scopes'[k] = scopes[k]
    BY CurNat DEF cur, TypeOK
  <1>2. \A k \in 1..cur' : Reckoned(scopes[k])'
    BY <1>1, AddressFacts DEF Reckoned
  <1>3. QED
    BY <1>2 DEF AddressOK, Reckoned, AtAccess, DataSize

\* The fields that tell where the variables of the current scope are.
LEMMA CurReckoned ==
  ASSUME AddressInv
  PROVE  /\ TypeOK /\ ChainOK /\ AddressOK /\ cur \in 1..cur
         /\ scopes[cur] \in Scope /\ Reckoned(scopes[cur])
         /\ scopes[cur].data \in Nat /\ scopes[cur].arrays \in Nat
         /\ scopes[cur].last \in Nat
  <1>1. TypeOK /\ ChainOK /\ AddressOK
    BY DEF AddressInv, IInv
  <1>2. cur \in 1..cur /\ scopes[cur] \in Scope
    BY <1>1, CurNat
  <1>3. QED
    BY <1>1, <1>2, ScopeFields, AddressFacts

\* Arrays are added to those of the current scope, and its part may change.
LEMMA ArraysAddress ==
  ASSUME AddressInv, ~AtAccess', NEW s, NEW r \in Nat,
         scopes' = [scopes EXCEPT ![cur] = s],
         s.last = scopes[cur].last, s.data = scopes[cur].data,
         s.arrays = scopes[cur].arrays + r
  PROVE  AddressOK'
  <1>1. Reckoned(s)
    BY CurReckoned DEF Reckoned
  <1>2. QED
    BY <1>1, CurReckoned, EditAddress

LEMMA DeclareAddress ==
  ASSUME AddressInv, NEW n \in VarSizes, NEW own \in ArraySums, Declare(n, own)
  PROVE  AddressOK'
  <1> DEFINE last == DataSize(cur) - own + n
             data == scopes[cur].data + n
             s == [scopes[cur] EXCEPT !.data = data, !.last = last]
  <1>1. /\ Running /\ own <= scopes[cur].arrays /\ UNCHANGED pc
        /\ scopes' = [scopes EXCEPT ![cur] = s]
    BY DEF Declare, InBody, Steady, currScope
  <1>2. /\ scopes[cur] \in Scope /\ scopes[cur].data \in Nat
        /\ scopes[cur].arrays \in Nat /\ n \in Nat /\ own \in Nat
    BY CurReckoned, ArraySumsNat, FramesAssumption
  <1>3. last \in data..data + scopes[cur].arrays
    BY <1>1, <1>2 DEF DataSize
  <1> HIDE DEF last, data
  <1>4. s.last = last /\ s.data = data /\ s.arrays = scopes[cur].arrays
    BY <1>2 DEF Scope
  <1> HIDE DEF s
  <1>5. Reckoned(s) /\ ~AtAccess'
    BY <1>1, <1>3, <1>4 DEF Reckoned, AtAccess, Running
  <1>6. QED
    BY <1>1, <1>5, CurReckoned, EditAddress

LEMMA NextIterationAddress ==
  ASSUME AddressInv, NextIteration
  PROVE  AddressOK'
  <1> DEFINE s == [scopes[cur] EXCEPT !.part = "condition", !.data = 0,
                                      !.arrays = 0, !.last = 0]
  <1>1. Running /\ UNCHANGED pc /\ scopes' = [scopes EXCEPT ![cur] = s]
    BY DEF NextIteration, Steady, currScope
  <1>2. s.last = 0 /\ s.data = 0 /\ s.arrays = 0
    BY CurReckoned DEF Scope
  <1> HIDE DEF s
  <1>3. Reckoned(s) /\ ~AtAccess'
    BY <1>1, <1>2 DEF Reckoned, AtAccess, Running
  <1>4. QED
    BY <1>1, <1>3, CurReckoned, EditAddress

LEMMA GotoAddress ==
  ASSUME AddressInv, Goto
  PROVE  AddressOK'
  <1>1. PICK before \in {0, loc.arrays} :
          scopes' = [scopes EXCEPT
                       ![cur] = [currScope EXCEPT !.part = "body",
                                   !.data = loc.data, !.arrays = loc.arrays,
                                   !.last = loc.data + before]]
    BY DEF Goto
  <1> DEFINE last == loc.data + before
             s == [scopes[cur] EXCEPT !.part = "body", !.data = loc.data,
                                      !.arrays = loc.arrays, !.last = last]
  <1>2. scopes' = [scopes EXCEPT ![cur] = s]
    BY <1>1 DEF currScope
  <1>3. loc.data \in Nat /\ loc.arrays \in Nat
    BY CurReckoned DEF TypeOK, Locals
  <1>4. last \in loc.data..loc.data + loc.arrays
    BY <1>3
  <1> HIDE DEF last
  <1>5. s.last = last /\ s.data = loc.data /\ s.arrays = loc.arrays
    BY CurReckoned DEF Scope
  <1> HIDE DEF s
  <1>6. Reckoned(s) /\ ~AtAccess'
    BY <1>4, <1>5 DEF Reckoned, AtAccess, Goto
  <1>7. QED
    BY <1>2, <1>6, CurReckoned, EditAddress

LEMMA ReturnAddress ==
  ASSUME AddressInv, Return
  PROVE  AddressOK'
  <1> DEFINE n == cur - 1
             q == SubSeq(scopes, 1, n)
             a == q[n].arrays + currScope.ret
             s == [q[n] EXCEPT !.arrays = a]
  <1>1. /\ pc' = "run" /\ scopes' = [q EXCEPT ![n] = s]
    BY DEF Return
  <1>2. TypeOK /\ cur = currScope.func /\ cause = "none" /\ Sound
    BY DEF Return, AddressInv, IInv, PhasesOK, ReturnOK, Sound
  <1>3. n \in 1..cur /\ n \in Nat /\ n # 0 /\ cur \in Nat
    BY <1>2, AtFunc, CurNat
  <1>4. /\ q \in Seq(Scope) /\ Len(q) = n /\ \A k \in 1..n : q[k] = scopes[k]
        /\ \A k \in 1..n : k \in 1..cur
    BY <1>2, <1>3 DEF cur, TypeOK
  <1>5. /\ q[n] \in Scope /\ currScope.ret \in Nat /\ Reckoned(q[n])
        /\ q[n].data \in Nat /\ q[n].arrays \in Nat /\ q[n].last \in Nat
    <2>1. q[n] = scopes[n] /\ scopes[n] \in Scope
      BY <1>2, <1>3, <1>4, CurNat
    <2>2. Reckoned(scopes[n])
      BY <1>3, AddressFacts DEF AddressInv
    <2>3. QED
      BY <2>1, <2>2, CurReckoned, ScopeFields DEF currScope
  <1> HIDE DEF n, q
  <1>6. Reckoned(s)
    <2>1. a \in Nat /\ a >= q[n].arrays
      BY <1>5
    <2> HIDE DEF a
    <2>2. s.last = q[n].last /\ s.data = q[n].data /\ s.arrays = a
      BY <1>5 DEF Scope
    <2>3. QED
      BY <1>5, <2>1, <2>2 DEF Reckoned
  <1> HIDE DEF s
  <1>7. /\ cur' = n /\ scopes'[n] = s
        /\ \A k \in 1..n : k # n => scopes'[k] = q[k]
    BY <1>1, <1>3, <1>4 DEF cur
  <1>8. \A k \in 1..cur' : Reckoned(scopes[k])'
    BY <1>4, <1>6, <1>7, AddressFacts DEF AddressInv, Reckoned
  <1>9. QED
    BY <1>1, <1>8 DEF AddressOK, Reckoned, AtAccess, DataSize

\* Steps inside an access keep its goal and the address it started from.
LEMMA WalkAddress ==
  ASSUME AddressInv, WalkScope \/ WalkFunc \/ WalkEnd \/ Adjust
  PROVE  AddressOK'
  <1>1. /\ AddressOK /\ UNCHANGED scopes /\ AtAccess /\ loc \in Locals
        /\ loc'.goal = loc.goal /\ loc'.id = loc.id
    <2>1. AddressOK /\ loc \in Locals
      BY DEF AddressInv, IInv, TypeOK
    <2>2. CASE WalkScope
      BY <2>1, <2>2 DEF WalkScope, AtAccess, Locals
    <2>3. CASE WalkFunc
      BY <2>1, <2>3 DEF WalkFunc, AtAccess, Locals
    <2>4. CASE WalkEnd
      BY <2>1, <2>4 DEF WalkEnd, AtAccess
    <2>5. CASE Adjust
      BY <2>1, <2>5 DEF Adjust, AtAccess, Locals
    <2>6. QED
      BY <2>2, <2>3, <2>4, <2>5
  <1>2. QED
    BY <1>1, SameAddress, AddressFacts

LEMMA AccessBeginAddress ==
  ASSUME AddressInv, NEW k \in 1..cur, NEW id \in IdAddresses(k),
         AccessBegin(k, id)
  PROVE  AddressOK'
  <1>1. /\ AddressOK /\ UNCHANGED scopes
        /\ loc' = [Idle EXCEPT !.at = cur, !.goal = k, !.id = id, !.addr = -id]
    BY DEF AccessBegin, AddressInv
  <1>2. loc'.goal = k /\ loc'.id = id
    BY <1>1 DEF Idle
  <1>3. QED
    BY <1>1, <1>2, SameAddress

LEMMA OpenAddress ==
  ASSUME AddressInv, OpenBlock \/ OpenLoop \/ CallEnter
  PROVE  AddressOK'
  <1>1. CASE OpenBlock
    <2>1. ~AtAccess'
      BY <1>1 DEF OpenBlock, InBody, Running, Steady, AtAccess
    <2>2. QED
      BY <1>1, <2>1, CurReckoned, PushAddress DEF OpenBlock
  <1>2. CASE OpenLoop
    <2>1. ~AtAccess'
      BY <1>2 DEF OpenLoop, InBody, Running, Steady, AtAccess
    <2>2. QED
      BY <1>2, <2>1, CurReckoned, PushAddress DEF OpenLoop
  <1>3. CASE CallEnter
    <2>1. ~AtAccess'
      BY <1>3 DEF CallEnter, AtAccess
    <2>2. QED
      BY <1>3, <2>1, CurReckoned, PushAddress DEF CallEnter
  <1>4. QED
    BY <1>1, <1>2, <1>3

LEMMA LeaveAddress ==
  ASSUME AddressInv, CloseBlock \/ ExitLoop \/ LeaveScope \/ BreakScope \/ Break
  PROVE  AddressOK'
  <1>1. Leave /\ ~AtAccess'
    BY DEF CloseBlock, ExitLoop, LeaveScope, BreakScope, Break, InBody, Running,
           Steady, AtAccess
  <1>2. QED
    BY <1>1, CurReckoned, DropAddress

\* A returned array, or one that is only counted.
LEMMA CountAddress ==
  ASSUME AddressInv,
         \/ \E r \in {0} \cup RetSizes : EnterBody(r)
         \/ StartIteration
         \/ \E r \in RetSizes : SkipCondition(r)
         \/ \E s \in SaveSizes, r \in RetSizes : SkipCall(s, r)
  PROVE  AddressOK'
  <1>1. CASE \E r \in {0} \cup RetSizes : EnterBody(r)
    <2>1. PICK r \in {0} \cup RetSizes : EnterBody(r)
      BY <1>1
    <2> DEFINE a == scopes[cur].arrays + r
               s == [scopes[cur] EXCEPT !.part = "body", !.arrays = a]
    <2>2. scopes' = [scopes EXCEPT ![cur] = s] /\ ~AtAccess' /\ r \in Nat
      <3>1. scopes' = [scopes EXCEPT ![cur] = s]
        BY <2>1 DEF EnterBody, currScope
      <3>2. ~AtAccess'
        BY <2>1 DEF EnterBody, Running, Steady, AtAccess
      <3>3. r \in Nat
        BY FramesAssumption
      <3>4. QED
        BY <3>1, <3>2, <3>3
    <2> HIDE DEF a
    <2>3. s.last = scopes[cur].last /\ s.data = scopes[cur].data /\ s.arrays = a
      BY CurReckoned DEF Scope
    <2> HIDE DEF s
    <2>4. QED
      BY <2>2, <2>3, ArraysAddress DEF a
  <1>2. CASE StartIteration
    <2> DEFINE s == [scopes[cur] EXCEPT !.part = "iteration"]
    <2>1. scopes' = [scopes EXCEPT ![cur] = s] /\ ~AtAccess'
      BY <1>2 DEF StartIteration, InBody, Running, Steady, AtAccess
    <2>2. /\ s.last = scopes[cur].last /\ s.data = scopes[cur].data
          /\ s.arrays = scopes[cur].arrays
      BY CurReckoned DEF Scope
    <2> HIDE DEF s
    <2>3. s.arrays = scopes[cur].arrays + 0
      BY <2>2, CurReckoned
    <2>4. QED
      BY <2>1, <2>2, <2>3, ArraysAddress
  <1>3. CASE \/ \E r \in RetSizes : SkipCondition(r)
             \/ \E s \in SaveSizes, r \in RetSizes : SkipCall(s, r)
    <2>1. PICK r \in RetSizes :
            /\ scopes' = [scopes EXCEPT ![cur].arrays = @ + r]
            /\ ~AtAccess'
      BY <1>3 DEF SkipCondition, SkipCall, InBody, Running, Steady, AtAccess
    <2> DEFINE a == scopes[cur].arrays + r
               s == [scopes[cur] EXCEPT !.arrays = a]
    <2>2. scopes' = [scopes EXCEPT ![cur] = s] /\ r \in Nat
      BY <2>1, FramesAssumption
    <2> HIDE DEF a
    <2>3. s.last = scopes[cur].last /\ s.data = scopes[cur].data /\ s.arrays = a
      BY CurReckoned DEF Scope
    <2> HIDE DEF s
    <2>4. QED
      BY <2>1, <2>2, <2>3, ArraysAddress DEF a
  <1>4. QED
    BY <1>1, <1>2, <1>3

\* A call pushes what it needs before it touches a scope.
LEMMA CallBeginQuiet ==
  ASSUME NEW d, NEW a, NEW s, NEW r, CallBegin(d, a, s, r)
  PROVE  scopes' = scopes /\ pc' = "hop"
  BY DEF CallBegin

\* The other steps leave the scopes alone and are no part of an access.
LEMMA OtherAddress ==
  ASSUME AddressInv,
         \/ \E d \in 1..cur, a \in ArgSizes, s \in SaveSizes, r \in RetSizes :
              CallBegin(d, a, s, r)
         \/ ReturnBegin \/ BreakBegin \/ Exit \/ Hop \/ Access
         \/ \E t \in 1..cur, data \in 0..MaxData, arrays \in ArraySums :
              GotoBegin(t, data, arrays)
  PROVE  AddressOK'
  <1>1. UNCHANGED scopes /\ ~AtAccess'
    <2>1. CASE \E d \in 1..cur, a \in ArgSizes, s \in SaveSizes, r \in RetSizes :
                 CallBegin(d, a, s, r)
      BY <2>1, CallBeginQuiet DEF AtAccess
    <2>2. CASE ReturnBegin \/ BreakBegin \/ Exit
      BY <2>2 DEF ReturnBegin, BreakBegin, Exit, AtAccess
    <2>3. CASE Hop \/ Access
      BY <2>3 DEF Hop, Access, AtAccess
    <2>4. CASE \E t \in 1..cur, data \in 0..MaxData, arrays \in ArraySums :
                 GotoBegin(t, data, arrays)
      BY <2>4 DEF GotoBegin, AtAccess
    <2>5. QED
      BY <2>1, <2>2, <2>3, <2>4
  <1>2. QED
    BY <1>1, SameAddress DEF AddressInv

\* Every step keeps what is known of the addresses of variables.
LEMMA AddressStep ==
  ASSUME AddressInv, [Next]_vars
  PROVE  AddressInv'
  <1>1. IInv'
    BY IInvStep DEF AddressInv
  <1>2. CASE UNCHANGED vars
    <2>1. AddressOK /\ UNCHANGED <<scopes, pc, loc>>
      BY <1>2 DEF vars, AddressInv
    <2>2. QED
      BY <1>1, <2>1, SameAddress, AddressFacts DEF AtAccess, AddressInv
  <1>3. CASE Next
    <2>1. AddressOK'
      BY <1>3, DeclareAddress, NextIterationAddress, GotoAddress, ReturnAddress,
         WalkAddress, AccessBeginAddress, OpenAddress, LeaveAddress,
         CountAddress, OtherAddress DEF Next, Start, Continue
    <2>2. QED
      BY <1>1, <2>1 DEF AddressInv
  <1>4. QED
    BY <1>2, <1>3

\* Where an access that has found its frame reads and writes.
LEMMA AddressRight ==
  ASSUME AddressInv
  PROVE  AccessCorrect
  <1> SUFFICES ASSUME pc = "resolved", ~loc.lost, NoArrays
               PROVE  rbp + loc.addr = Place(loc.goal, loc.id)
    BY DEF AccessCorrect
  <1> DEFINE g == loc.goal
  <1>1. /\ TypeOK /\ g \in 1..cur /\ rbp + loc.addr = scopes[g].base - loc.id
    BY DEF AddressInv, IInv, PhasesOK, ResolvedOK
  <1>2. /\ scopes[g] \in Scope /\ scopes[g].data \in Nat
        /\ scopes[g].base \in Int /\ scopes[g].arrays = 0
    BY <1>1, CurNat, ScopeFields DEF NoArrays
  <1>3. Reckoned(scopes[g]) /\ loc.id \in IdAddresses(g)
    BY <1>1, AddressFacts DEF AddressInv, AtAccess
  <1>4. scopes[g].last = scopes[g].data
    BY <1>2, <1>3 DEF Reckoned
  <1>5. \/ loc.id = scopes[g].data /\ loc.id > 0
        \/ loc.id = -3 * WordSize /\ ~(loc.id > 0)
    BY <1>2, <1>3, <1>4, FramesAssumption DEF IdAddresses
  <1>6. QED
    BY <1>1, <1>2, <1>5 DEF Place, Edge
-----------------------------------------------------------------------------
(* The theorems. *)

\* The inductive invariant holds in every state of every program.
THEOREM Invariance == Spec => []AddressInv
  <1>1. Init => AddressInv
    <2> SUFFICES ASSUME Init
                 PROVE  AddressInv
      OBVIOUS
    <2>1. IInv /\ scopes = <<Global>> /\ pc = "run"
      BY InitIInv DEF Init
    <2>2. cur = 1 /\ scopes[1] = Global
      BY <2>1 DEF cur
    <2>3. Reckoned(Global)
      BY DEF Global, Reckoned
    <2>4. QED
      BY <2>1, <2>2, <2>3, AddressFacts DEF AddressInv, AtAccess
  <1>2. AddressInv /\ [Next]_vars => AddressInv'
    BY AddressStep
  <1>3. QED
    BY <1>1, <1>2, PTL DEF Spec

\* The scope chain, the registers, the stack and the locals of the walks keep
\* their types, however deep the program nests and whatever it declares.
THEOREM TypeCorrect == Spec => []TypeOK
  <1>1. AddressInv => TypeOK
    BY DEF AddressInv, IInv
  <1>2. QED
    BY <1>1, Invariance, PTL

\* Wherever code for a statement starts, RBP is the frame and RSP the end of the
\* variables of the current scope: returned arrays, which dataSize counts, are
\* not on the stack.
THEOREM LayoutCorrect == Spec => []FrameLayout
  <1>1. AddressInv => FrameLayout
    BY DEF AddressInv, IInv, PhasesOK, FrameLayout, Running
  <1>2. QED
    BY <1>1, Invariance, PTL

\* The saved frame pointers of every open loop and func stay intact.
THEOREM LinksCorrect == Spec => []SavedLinks
  <1>1. AddressInv => SavedLinks
    BY DEF AddressInv, IInv
  <1>2. QED
    BY <1>1, Invariance, PTL

\* An access reaches the variable that lexical scoping designates, unless a
\* scope it reckons with counts a returned array, or it leaves a func from
\* inside two or more of its loops.
THEOREM AccessesCorrect == Spec => []AccessCorrect
  <1>1. AddressInv => AccessCorrect
    BY AddressRight
  <1>2. QED
    BY <1>1, Invariance, PTL

\* The variables of nested scopes never overlap on the stack, arrays returned or
\* not.
THEOREM NestingCorrect == Spec => []ScopesNest
  <1>1. AddressInv => ScopesNest
    BY DEF AddressInv, IInv
  <1>2. QED
    BY <1>1, Invariance, PTL

-----------------------------------------------------------------------------
(***************************************************************************)
(* A goto restores RBP to the frame of its label's scope whichever scopes  *)
(* it leaves, funcs among them, and whatever variables it leaves behind.   *)
(*                                                                         *)
(* FramesInv says nothing of the frames once a goto is unbalanced.  What   *)
(* remains true while its code unwinds the scopes is that those still open *)
(* lie one below the other with their links saved: only what is below them *)
(* has been given up.                                                      *)
(***************************************************************************)

\* The scopes still open, whatever RSP is.
Nested == \A k \in 2..cur : \A j \in 1..k - 1 : scopes[k].base <= Edge(j)
Linked == \A k \in 2..cur : LinkSaved(k)

\* An unbalanced goto, under way or done: no other statement follows it.
UnwindOK ==
  cause = "goto" =>
    /\ pc \in {"goto", "run"}
    /\ pc = "goto" => SpacingOK /\ Nested /\ Linked
    /\ rbp = Fp(cur)

GotoInv == IInv /\ UnwindOK
-----------------------------------------------------------------------------
\* The scope on top, when the one it hangs off is n: its frame, and the link
\* to the frame of n.
LEMMA TopFacts ==
  ASSUME TypeOK, ChainOK, AncestorsOK, SpacingOK, Nested, Linked,
         cur \in 2..cur, NEW n, n = currScope.parent
  PROVE  /\ n \in 1..cur - 1 /\ n \in 1..cur
         /\ HasLink(cur) =>
              /\ Fp(cur) = scopes[cur].base
              /\ scopes[cur].base \in Addr /\ scopes[cur].base \in Int
              /\ mem[scopes[cur].base] = Fp(n)
              /\ \A k \in 1..n : scopes[k].base >= scopes[cur].base + WordSize
         /\ ~HasLink(cur) => Fp(cur) = Fp(n)
<1>1. cur \in Nat \ {0} /\ scopes[cur] \in Scope /\ ChildOK(cur) /\ LinkSaved(cur)
  BY CurNat DEF ChainOK, Linked
<1>2. n \in 1..cur - 1 /\ n \in 1..cur
  BY <1>1 DEF ChildOK, Parent, currScope
<1>3. ASSUME HasLink(cur)
      PROVE  /\ Fp(cur) = scopes[cur].base
             /\ scopes[cur].base \in Addr /\ scopes[cur].base \in Int
             /\ mem[scopes[cur].base] = Fp(n)
  <2>1. scopes[cur].frameScope = cur /\ cur # 0
    BY <1>1, <1>3 DEF ChildOK
  <2>2. scopes[cur].base <= 0 /\ Edge(cur) >= -StackSize
        /\ scopes[cur].base \in Int /\ scopes[cur].data \in Nat
    BY <1>1, ScopeFields DEF SpacingOK
  <2>3. scopes[cur].base \in Addr
    BY <2>2, FramesAssumption DEF Edge, Addr
  <2>4. scopes[cur].kind = "loop" => n = cur - 1
    BY <1>1 DEF ChildOK, Parent, currScope
  <2>5. mem[scopes[cur].base] = Fp(n)
    BY <1>1, <1>3, <2>4 DEF HasLink, LinkSaved, currScope
  <2> QED BY <2>1, <2>2, <2>3, <2>5 DEF Fp, FrameOf
<1>4. ASSUME HasLink(cur), NEW k \in 1..n
      PROVE  scopes[k].base >= scopes[cur].base + WordSize
  <2>1. /\ cur - 1 \in 1..cur /\ k \in 1..cur - 1 /\ k \in 1..cur
        /\ cur - 1 \in 2..cur \/ k = cur - 1
    BY <1>1, <1>2
  <2>2. /\ scopes[k] \in Scope /\ scopes[cur - 1] \in Scope
        /\ scopes[k].base \in Int /\ scopes[cur].base \in Int
        /\ scopes[k].data \in Nat /\ scopes[cur - 1].base \in Int
        /\ scopes[cur - 1].data \in Nat
    BY <1>1, <2>1, CurNat, ScopeFields
  <2>3. scopes[cur].base = Edge(cur - 1) - Below(scopes[cur])
    BY <1>1 DEF SpacingOK
  <2>4. Below(scopes[cur]) \in Nat /\ Below(scopes[cur]) >= WordSize
    BY <1>1, <1>4, ScopeFields, FramesAssumption DEF Below, HasLink
  <2>5. scopes[k].base >= Edge(cur - 1)
    <3>1. CASE k = cur - 1
      BY <2>2, <3>1 DEF Edge
    <3>2. CASE k # cur - 1
      <4>1. k \in 1..(cur - 1) - 1 /\ cur - 1 \in 2..cur
        BY <1>1, <2>1, <3>2
      <4>2. scopes[cur - 1].base <= Edge(k)
        BY <4>1 DEF Nested
      <4> QED BY <2>2, <4>2 DEF Edge
    <3> QED BY <3>1, <3>2
  <2>6. Edge(cur - 1) \in Int /\ WordSize \in Nat
    BY <2>2, FramesAssumption DEF Edge
  <2> QED BY <2>2, <2>3, <2>4, <2>5, <2>6
<1>5. ~HasLink(cur) => Fp(cur) = Fp(n)
  BY <1>1, <1>2 DEF ChildOK, Parent, currScope, Fp
<1> QED BY <1>2, <1>3, <1>4, <1>5

\* A scope dropped together with all above the one it hangs off.
LEMMA DropNested ==
  ASSUME TypeOK, SpacingOK, Nested, NEW n \in 1..cur, scopes' = SubSeq(scopes, 1, n)
  PROVE  SpacingOK' /\ Nested'
<1>1. cur' = n /\ \A k \in 1..n : scopes'[k] = scopes[k]
  BY DropFacts
<1>2. cur \in Nat /\ n \in Nat /\ n <= cur
  BY CurNat
<1>3. \A k \in 1..n : Edge(k)' = Edge(k) /\ Below(scopes[k])' = Below(scopes[k])
  BY <1>1 DEF Edge, Below
<1>4. ASSUME NEW k \in 1..n
      PROVE  scopes'[k].base <= 0 /\ Edge(k)' >= -StackSize
  BY <1>1, <1>2, <1>3 DEF SpacingOK
<1>5. ASSUME NEW k \in 2..n
      PROVE  scopes'[k].base = Edge(k - 1)' - Below(scopes[k])'
  <2>1. k \in 1..n /\ k - 1 \in 1..n /\ k \in 2..cur
    BY <1>2
  <2> QED BY <1>1, <1>3, <2>1 DEF SpacingOK
<1>6. ASSUME NEW k \in 2..n, NEW j \in 1..k - 1
      PROVE  scopes'[k].base <= Edge(j)'
  <2>1. k \in 1..n /\ j \in 1..n /\ k \in 2..cur
    BY <1>2
  <2> QED BY <1>1, <1>3, <2>1 DEF Nested
<1>7. SpacingOK'
  BY <1>1, <1>4, <1>5 DEF SpacingOK
<1> QED BY <1>1, <1>6, <1>7 DEF Nested

\* The code of an unbalanced goto leaves a scope.
LEMMA LeaveScopeUnwinds ==
  ASSUME GotoInv, LeaveScope, cause = "goto", NEW n, n = currScope.parent
  PROVE  UnwindOK'
<1>1. /\ Leave /\ UNCHANGED <<pc, loc, cause>> /\ pc = "goto" /\ cur # loc.goal
      /\ IF HasLink(cur) THEN PopFrame ELSE UNCHANGED machine
  BY DEF LeaveScope, GotoInv, IInv, PhasesOK
<1>2. /\ TypeOK /\ ChainOK /\ AncestorsOK /\ SpacingOK /\ Nested /\ Linked
      /\ rbp = Fp(cur) /\ loc.goal \in currScope.anc
  BY <1>1 DEF GotoInv, IInv, PhasesOK, GotoOK, UnwindOK
<1>3. cur \in 2..cur /\ cur \in Nat
  <2>1. cur \in Nat \ {0} /\ AncestryOK(cur)
    BY <1>2, CurNat DEF AncestorsOK
  <2>2. loc.goal \in 1..cur /\ cur # loc.goal
    BY <1>1, <1>2, <2>1 DEF AncestryOK, currScope
  <2> QED BY <2>1, <2>2
<1>4. /\ n \in 1..cur - 1 /\ n \in 1..cur
      /\ HasLink(cur) =>
           /\ Fp(cur) = scopes[cur].base
           /\ scopes[cur].base \in Addr /\ scopes[cur].base \in Int
           /\ mem[scopes[cur].base] = Fp(n)
           /\ \A k \in 1..n : scopes[k].base >= scopes[cur].base + WordSize
      /\ ~HasLink(cur) => Fp(cur) = Fp(n)
  BY <1>2, <1>3, TopFacts
<1>5. scopes' = SubSeq(scopes, 1, n)
  BY <1>1 DEF Leave
<1>6. cur' = n /\ Keeps(n) /\ n \in 1..n /\ n \in Nat
  BY <1>2, <1>4, <1>5, DropFacts
<1>7. SpacingOK' /\ Nested'
  BY <1>2, <1>4, <1>5, DropNested
<1>8. Fp(n)' = Fp(n) /\ Fp(cur)' = Fp(n)
  <2>1. Fp(n)' = Fp(n)
    BY <1>2, <1>4, <1>6, KeepsFrames
  <2> QED BY <1>6, <2>1 DEF Fp
<1>9. rbp' = Fp(n) /\ \A k \in 2..n : LinkSaved(k)'
  <2>1. CASE HasLink(cur)
    <3> DEFINE lo == scopes[cur].base + WordSize
    <3>1. /\ lo \in Int /\ rbp = scopes[cur].base /\ rbp \in Int /\ rbp # Garbage
          /\ WordSize \in Nat
      BY <1>2, <1>4, <2>1, FramesAssumption
    <3>2. rsp' = lo /\ rbp' = Fp(n) /\ mem' = Freed(mem, lo)
      BY <1>1, <1>4, <2>1, <3>1 DEF PopFrame, Plus, Load
    <3> HIDE DEF lo
    <3>3. \A a \in Addr : a >= lo => mem'[a] = mem[a]
      BY <1>2, <3>1, <3>2, FreedFacts DEF TypeOK, Word
    <3>4. \A k \in 2..n : scopes[k].base >= lo
      <4>1. \A k \in 2..n : k \in 1..n
        BY <1>6
      <4> QED BY <1>4, <2>1, <4>1 DEF lo
    <3>5. \A k \in 2..n : LinkSaved(k)'
      BY <1>2, <1>4, <1>6, <3>1, <3>3, <3>4, KeepsLinks DEF Linked
    <3> QED BY <3>2, <3>5
  <2>2. CASE ~HasLink(cur)
    <3>1. mem' = mem /\ rbp' = Fp(n)
      BY <1>1, <1>2, <1>4, <2>2 DEF machine
    <3> DEFINE lo == -StackSize
    <3>2. /\ lo \in Int /\ \A a \in Addr : a >= lo => mem'[a] = mem[a]
      BY <3>1, FramesAssumption
    <3>3. ASSUME NEW k \in 2..n
          PROVE  scopes[k].base >= lo
      <4>1. k \in 1..cur /\ scopes[k] \in Scope
        BY <1>2, <1>3, <1>4, <1>6, CurNat
      <4>2. Edge(k) >= -StackSize
        BY <1>2, <4>1 DEF SpacingOK
      <4> QED BY <4>1, <4>2, ScopeFields, FramesAssumption DEF Edge
    <3> HIDE DEF lo
    <3>4. \A k \in 2..n : LinkSaved(k)'
      BY <1>2, <1>4, <1>6, <3>2, <3>3, KeepsLinks DEF Linked
    <3> QED BY <3>1, <3>4
  <2> QED BY <2>1, <2>2
<1>10. Linked'
  BY <1>6, <1>9 DEF Linked
<1> QED BY <1>1, <1>7, <1>8, <1>9, <1>10 DEF UnwindOK

\* The goto arrives: the label's scope has the variables of the label.
LEMMA GotoUnwinds ==
  ASSUME GotoInv, Goto, cause = "goto", NEW n, n = cur
  PROVE  UnwindOK'
<1>1. pc' = "run" /\ UNCHANGED <<mem, rsp, rbp, cause>>
  BY DEF Goto, machine
<1>2. TypeOK /\ ChainOK /\ AncestorsOK /\ rbp = Fp(cur)
  BY DEF GotoInv, IInv, UnwindOK
<1>3. cur \in 1..cur
  BY <1>2, CurNat
<1>4. PICK s \in Scope : Cut(cur, s.data)
  BY <1>2, GotoScope, DataCut
<1>5. cur' = cur /\ Keeps(cur)
  BY <1>2, <1>4 DEF Cut
<1>6. Fp(cur)' = Fp(cur)
  <2>1. n \in 1..n /\ Keeps(n) /\ n \in 1..cur
    BY <1>3, <1>5
  <2>2. Fp(n)' = Fp(n)
    BY <1>2, <2>1, KeepsFrames
  <2> QED BY <1>5, <2>2 DEF Fp
<1> QED BY <1>1, <1>2, <1>6 DEF UnwindOK

\* A goto begins where the frames are as the compiler takes them to be.
LEMMA GotoBeginUnwinds ==
  ASSUME IInv, NEW t \in 1..cur, NEW data \in 0..MaxData,
         NEW arrays \in ArraySums, GotoBegin(t, data, arrays)
  PROVE  UnwindOK'
<1>1. Running /\ UNCHANGED <<scopes, mem, rsp, rbp>> /\ pc' = "goto"
  BY DEF GotoBegin, InBody, machine
<1>2. TypeOK /\ Sound /\ cause = "none" /\ rbp = Fp(cur)
  BY <1>1, RunFacts
<1>3. SpacingOK /\ Nested /\ Linked
  BY <1>2 DEF Sound, ScopesNest, SavedLinks, Nested, Linked
<1>4. /\ cur' = cur /\ SpacingOK' /\ Fp(cur)' = Fp(cur)
      /\ \A k : LinkSaved(k)' = LinkSaved(k) /\ Edge(k)' = Edge(k)
  BY <1>1, <1>3, SameScopes DEF Fp, FrameOf, cur
<1>5. Nested' /\ Linked'
  BY <1>1, <1>3, <1>4 DEF Nested, Linked
<1> QED BY <1>1, <1>2, <1>4, <1>5 DEF UnwindOK

\* No other statement begins after an unbalanced goto, and none but goto
\* leaves the frames for that cause.
LEMMA OthersUnwind ==
  ASSUME GotoInv, Next, ~Goto, ~LeaveScope,
         ~\E t \in 1..cur, data \in 0..MaxData, arrays \in ArraySums :
            GotoBegin(t, data, arrays)
  PROVE  cause # "goto" /\ cause' # "goto"
<1>1. cause = "goto" => pc \in {"goto", "run"}
  BY DEF GotoInv, UnwindOK
<1>2. CASE Start
  <2>1. CASE OpenBlock \/ CloseBlock \/ OpenLoop \/ NextIteration \/ ExitLoop
    BY <2>1 DEF OpenBlock, CloseBlock, OpenLoop, NextIteration, ExitLoop, Steady,
                InBody, Running
  <2>2. CASE \E n \in VarSizes, own \in ArraySums : Declare(n, own)
    BY <2>2 DEF Declare, Steady, InBody, Running
  <2>3. CASE \E d \in 1..cur, a \in ArgSizes, s \in SaveSizes, r \in RetSizes :
               CallBegin(d, a, s, r)
    BY <2>3 DEF CallBegin, Running
  <2>4. CASE ReturnBegin \/ BreakBegin \/ Exit
    BY <2>4 DEF ReturnBegin, BreakBegin, Exit, InBody, Running
  <2>5. CASE \E k \in 1..cur : \E id \in IdAddresses(k) : AccessBegin(k, id)
    BY <2>5 DEF AccessBegin, Running
  <2>6. CASE StartIteration \/ \E r \in {0} \cup RetSizes : EnterBody(r)
    BY <2>6 DEF StartIteration, EnterBody, Steady, InBody, Running
  <2>7. CASE \/ \E s \in SaveSizes, r \in RetSizes : SkipCall(s, r)
             \/ \E r \in RetSizes : SkipCondition(r)
    BY <2>7 DEF SkipCall, SkipCondition, Steady, InBody, Running
  <2> QED BY <1>2, <2>1, <2>2, <2>3, <2>4, <2>5, <2>6, <2>7 DEF Start
<1>3. CASE Continue
  <2>1. pc \notin {"goto", "run"}
    BY <1>3 DEF Continue, Hop, CallEnter, Return, BreakScope, Break, WalkScope,
                WalkFunc, WalkEnd, Adjust, Access
  <2>2. cause' = cause
    BY <1>3 DEF Continue, Hop, CallEnter, Return, BreakScope, Break, WalkScope,
                WalkFunc, WalkEnd, Adjust, Access
  <2> QED BY <1>1, <2>1, <2>2
<1> QED BY <1>2, <1>3 DEF Next

LEMMA GotoInvStep ==
  ASSUME GotoInv, [Next]_vars
  PROVE  GotoInv'
<1> SUFFICES UnwindOK'
  BY IInvStep DEF GotoInv
<1>1. CASE LeaveScope
  <2>1. CASE cause = "goto"
    <3>1. ASSUME NEW n, n = currScope.parent PROVE UnwindOK'
      BY <1>1, <2>1, <3>1, LeaveScopeUnwinds
    <3> QED BY <3>1
  <2>2. CASE cause # "goto"
    BY <1>1, <2>2 DEF LeaveScope, UnwindOK
  <2> QED BY <2>1, <2>2
<1>2. CASE Goto
  <2>1. CASE cause = "goto"
    <3>1. ASSUME NEW n, n = cur PROVE UnwindOK'
      BY <1>2, <2>1, <3>1, GotoUnwinds
    <3> QED BY <3>1
  <2>2. CASE cause # "goto"
    BY <1>2, <2>2 DEF Goto, UnwindOK
  <2> QED BY <2>1, <2>2
<1>3. CASE \E t \in 1..cur, data \in 0..MaxData, arrays \in ArraySums :
             GotoBegin(t, data, arrays)
  BY <1>3, GotoBeginUnwinds DEF GotoInv
<1>4. CASE UNCHANGED vars
  <2>1. UNCHANGED <<scopes, mem, rbp, pc, cause>>
    BY <1>4 DEF vars
  <2>2. /\ cur' = cur /\ SpacingOK' = SpacingOK
        /\ \A k : LinkSaved(k)' = LinkSaved(k) /\ Edge(k)' = Edge(k)
        /\ Fp(cur)' = Fp(cur)
    BY <2>1, SameScopes DEF Fp, FrameOf, cur
  <2>3. Nested' = Nested /\ Linked' = Linked
    BY <2>1, <2>2 DEF Nested, Linked
  <2>4. UnwindOK' = UnwindOK
    BY <2>1, <2>2, <2>3 DEF UnwindOK
  <2> QED BY <2>4 DEF GotoInv
<1>5. CASE Next /\ ~LeaveScope /\ ~Goto
           /\ ~\E t \in 1..cur, data \in 0..MaxData, arrays \in ArraySums :
                GotoBegin(t, data, arrays)
  <2>1. cause' # "goto"
    BY <1>5, OthersUnwind
  <2> QED BY <2>1 DEF UnwindOK
<1> QED BY <1>1, <1>2, <1>3, <1>4, <1>5
-----------------------------------------------------------------------------
(* Wherever a goto has gone, and whatever variables it left on the stack,  *)
(* RBP is the frame of the scope of its label (ba_PStmt, goto).            *)
THEOREM GotoRestores == Spec => []GotoRestoresRbp
<1>1. Init => GotoInv
  <2>1. Init => cause = "none"
    BY DEF Init
  <2> QED BY <2>1, InitIInv DEF GotoInv, UnwindOK
<1>2. GotoInv /\ [Next]_vars => GotoInv'
  BY GotoInvStep
<1>3. GotoInv => GotoRestoresRbp
  BY DEF GotoInv, IInv, PhasesOK, FrameOK, UnwindOK, GotoRestoresRbp
<1> QED BY <1>1, <1>2, <1>3, PTL DEF Spec
=============================================================================
