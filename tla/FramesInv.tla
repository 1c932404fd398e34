------------------------------ MODULE FramesInv ------------------------------
(***************************************************************************)
(* The inductive invariant of Frames: what the compiler's scope chain, the *)
(* saved links on the stack and the registers have to satisfy between the  *)
(* steps of every statement, not only where statements begin.              *)
(***************************************************************************)
EXTENDS Frames

Parent(k) == scopes[k].parent

\* The chain of symbol tables: the outermost is global, a func hangs off the
\* scope that holds it, any other scope off the one it was opened in, and the
\* inherited fields are those of ba_SymTableAddChild.
GlobalOK(s) ==
  /\ s.kind = "global" /\ s.base = 0 /\ s.parent = 0 /\ s.anc = {1}
  /\ s.frameScope = 0 /\ s.func = 0 /\ s.loop = 0

ChildOK(k) ==
  /\ Parent(k) \in 1..k - 1
  /\ scopes[k].kind \in {"block", "loop", "func"}
  /\ scopes[k].kind # "func" => Parent(k) = k - 1
  /\ scopes[k].anc = scopes[Parent(k)].anc \cup {k}
  /\ scopes[k].frameScope =
       IF HasLink(k) THEN k ELSE scopes[Parent(k)].frameScope
  /\ scopes[k].func =
       IF scopes[k].kind = "func" THEN k ELSE scopes[Parent(k)].func

ChainOK == GlobalOK(scopes[1]) /\ \A k \in 2..cur : ChildOK(k)

\* Consequences of ChainOK that take induction along the chain.  A scope that
\* is visible from k is in the frame of k, or visible from where the scope of
\* that frame hangs.
AncestryOK(k) ==
  /\ scopes[k].anc \subseteq 1..k
  /\ k \in scopes[k].anc
  /\ scopes[k].frameScope \in 0..k \ {1}
  /\ scopes[k].frameScope # 0 => HasLink(scopes[k].frameScope)
  /\ scopes[k].func \in {0} \cup scopes[k].anc
  /\ scopes[k].loop \in {0} \cup scopes[k].anc
  /\ scopes[k].loop # 0 => scopes[scopes[k].loop].kind = "loop"
  /\ \A d \in scopes[k].anc :
       LET f == scopes[k].frameScope
       IN scopes[d].frameScope # f => f # 0 /\ d \in scopes[Parent(f)].anc

AncestorsOK == \A k \in 1..cur : AncestryOK(k)

\* Where each scope begins, below the end of the scope under it.
Below(s) ==
  CASE s.kind = "func" -> s.ret + s.saves + s.args + 3 * WordSize
    [] s.kind = "loop" -> WordSize
    [] OTHER -> 0

SpacingOK ==
  /\ \A k \in 1..cur : scopes[k].base <= 0 /\ Edge(k) >= -StackSize
  /\ \A k \in 2..cur : scopes[k].base = Edge(k - 1) - Below(scopes[k])

\* RSP while RBP may be pushed above it, with n bytes of a call's operands.
Parked(n) ==
  /\ rsp = Edge(cur) - n - (IF loc.pushed THEN WordSize ELSE 0)
  /\ rsp >= -StackSize
  /\ loc.pushed => mem[rsp] = Fp(cur)

HopOK ==
  pc = "hop" =>
    LET d == loc.goal
    IN /\ d \in currScope.anc /\ loc.at \in 0..cur
       /\ loc.at # scopes[d].frameScope =>
            loc.at # 0 /\ d \in scopes[Parent(loc.at)].anc
       /\ loc.at # 0 => HasLink(loc.at) /\ scopes[loc.at].frameScope = loc.at
       /\ rbp = FrameOf(loc.at)
       /\ Parked(loc.ret + loc.saves + loc.args)
       /\ rsp - 3 * WordSize >= -StackSize
       /\ ~loc.pushed => loc.at = currScope.frameScope
                         /\ loc.at = scopes[d].frameScope

ReturnOK ==
  pc = "return" =>
    loc.goal # 0 /\ loc.goal = currScope.func /\ rbp = Fp(cur)

BreakOK ==
  pc = "break" =>
    /\ loc.goal \in currScope.anc /\ scopes[loc.goal].kind = "loop"
    /\ cause # "break" => cur = loc.goal /\ currScope.kind = "loop"
                          /\ rbp = Fp(cur)

GotoOK ==
  pc = "goto" =>
    /\ loc.goal \in currScope.anc
    /\ cause = "none" =>
         /\ IsBalanced(loc.goal, loc.data)
         /\ rbp = Fp(cur)
         /\ rsp = Edge(cur)
            \/ currScope.frameScope # scopes[loc.goal].frameScope

\* linksPassed = 0: RBP is the frame of the scope reached.  linksPassed = 1:
\* RBP is the frame of the first loop passed, and the address already counts
\* everything from there to the scope reached.
WalkOK ==
  pc = "walk" =>
    /\ loc.at \in 1..cur /\ scopes[loc.at].anc \subseteq currScope.anc
    /\ loc.goal \in scopes[loc.at].anc
    /\ loc.links = 0 <=> loc.crossed = 0
    /\ ~loc.lost /\ loc.links = 0 => rbp = Fp(loc.at) /\ loc.addr = -loc.id
    /\ ~loc.lost /\ loc.links # 0 =>
         /\ rbp \in Addr
         /\ NoArrays => rbp + loc.addr = scopes[loc.at].base - loc.id
         /\ loc.crossed = 1 => mem[rbp] = Fp(loc.at)

AdjustOK ==
  pc = "adjust" =>
    /\ loc.at \in 1..cur /\ scopes[loc.at].anc \subseteq currScope.anc
    /\ loc.goal \in 1..cur
    /\ ~loc.lost =>
         /\ rbp = Fp(loc.at)
         /\ NoArrays =>
              scopes[loc.at].base + loc.addr = scopes[loc.goal].base - loc.id

ResolvedOK ==
  pc = "resolved" =>
    /\ loc.goal \in 1..cur
    /\ ~loc.lost =>
         /\ rbp \in Int
         /\ NoArrays => rbp + loc.addr = scopes[loc.goal].base - loc.id

AccessOK ==
  pc \in {"walk", "adjust", "resolved"} =>
    /\ Parked(0)
    /\ ~loc.pushed => rbp = Fp(cur) /\ rsp - WordSize >= -StackSize

PhasesOK ==
  /\ pc \in {"hop", "return", "walk", "adjust", "resolved"} => cause = "none"
  /\ pc \in {"run", "halted"} /\ cause = "none" => FrameOK
  /\ cause = "none" => rsp \in Int
  /\ HopOK /\ ReturnOK /\ BreakOK /\ GotoOK /\ WalkOK /\ AdjustOK
  /\ ResolvedOK /\ AccessOK

\* The inductive invariant of the chain, the stack and the registers.
IInv ==
  /\ TypeOK /\ ChainOK /\ AncestorsOK
  /\ cause = "none" => SpacingOK
  /\ ScopesNest /\ SavedLinks
  /\ PhasesOK

\* Beside it: returned arrays can only move the address of a variable down, and
\* an access is to a variable that is there.
AddressOK ==
  /\ \A k \in 1..cur : scopes[k].last \in scopes[k].data..DataSize(k)
  /\ pc \in {"walk", "adjust", "resolved"} =>
       loc.goal \in 1..cur /\ loc.id \in IdAddresses(loc.goal)

AddressInv == IInv /\ AddressOK
=============================================================================
