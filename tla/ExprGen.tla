------------------------------ MODULE ExprGen ------------------------------
(***************************************************************************)
(* Registers and intermediates of one expression (common/reg.c, parser/    *)
(* op.c, parser/handle.c).  The compiler keeps a stack of operands, each   *)
(* with the place where its value will be at run time, a set of registers  *)
(* it takes to be in use, and the number of words pushed since the         *)
(* statement began; it emits code and never looks back.  Here every        *)
(* operator updates those beliefs and, with them, the registers and the    *)
(* stack of the program it compiles.                                       *)
(*                                                                         *)
(* A value is named by the operand it belongs to: i is the value of the    *)
(* i-th pending operand.  An instruction that combines the right inputs    *)
(* yields Result, renamed to its operand's number when the operator ends;  *)
(* anything else yields Garbage.                                           *)
(***************************************************************************)
EXTENDS Integers, Sequences, FiniteSets

CONSTANTS NRegs,    \* general registers the compiler hands out (14)
          Own,      \* words of variables of the current scope
          Outer,    \* words of variables of the scopes around it, same frame
          MaxTks,   \* bound on pending operands
          MaxIm     \* bound on the words an expression leaves pushed

ASSUME SizesAssumption ==
  /\ NRegs \in Nat /\ NRegs >= 3
  /\ Own \in Nat /\ Outer \in Nat
  /\ MaxTks \in Nat /\ MaxIm \in Nat

VARIABLES tk,       \* pTkStk: the pending operands
          used,     \* usedRegisters
          im,       \* imStackSize, in words
          reg,      \* the program's registers
          stack,    \* the program's stack, variables of the frame first
          cause     \* ghost: the first emission known to be wrong, or "none"

vars == <<tk, used, im, reg, stack, cause>>

NoReg == 0          \* register 0 means "on the stack"
RAX == 1
RCX == 2
RDX == 3
Regs == 1..NRegs

Garbage == 0
Variable == MaxTks + 1
Result == MaxTks + 2
Values == 0..(MaxTks + 2)

Atom(k) == [kind |-> k, at |-> 0]
AtomKinds == {"id", "lit", "func"}
Operands == [kind : AtomKinds \cup {"reg", "stk"}, at : 0..(NRegs + MaxIm)]

(* The words of the frame that hold variables, and the index of the word   *)
(* that RBP - (currScope->dataSize + pos) names.                           *)
Vars == Outer + Own
SlotNoVars(pos) == pos          \* forgets the variables
Slot(pos) == Own + pos

----------------------------------------------------------------------------
(* Instructions and bookkeeping, on m = what is believed and what is.      *)

Here == [used |-> used, im |-> im, reg |-> reg, stack |-> stack]

Push(m, r) == [m EXCEPT !.stack = Append(@, m.reg[r]), !.im = @ + 1]
Drop(m) == [m EXCEPT !.stack = SubSeq(@, 1, Len(@) - 1), !.im = @ - 1]
Mov(m, r, v) == [m EXCEPT !.reg[r] = v]
Pop(m, r) == Mov(Drop(m), r, m.stack[Len(m.stack)])
MovReg(m, r, q) == Mov(m, r, m.reg[q])
PushIf(c, m, r) == IF c THEN Push(m, r) ELSE m
PopIf(c, m, r) == IF c THEN Pop(m, r) ELSE m
Store(m, pos, r) == [m EXCEPT !.stack[Slot(pos)] = m.reg[r]]

(* Forgets that 0 is not a register. *)
TakeAny(m, r) == [m EXCEPT !.used = @ \cup {r}]
Take(m, r) == [m EXCEPT !.used = @ \cup ({r} \ {NoReg})]
Free(m, r) == [m EXCEPT !.used = @ \ {r}]
PushOrFree(m, r, q) == IF r = NoReg THEN Push(m, q) ELSE Free(m, r)
PopOrFree(m, r, q) == IF r = NoReg THEN Pop(m, q) ELSE Free(m, r)

NextIMRegister(inUse) ==
  IF Regs \subseteq inUse THEN NoReg
  ELSE CHOOSE r \in Regs \ inUse : \A q \in Regs \ inUse : r <= q

(* The register of operand i: its own, or a new one. *)
ArgReg(m, i) ==
  IF tk[i].kind = "reg" THEN tk[i].at ELSE NextIMRegister(m.used)

(* With no register left: one word for the result, one to keep RAX. *)
AsgnRegOrStack(m, i) ==
  IF ArgReg(m, i) # NoReg THEN Take(m, ArgReg(m, i)) ELSE Push(Push(m, RAX), RAX)

OrElse(r, default) == IF r = NoReg THEN default ELSE r

ValueOf(m, i) ==
  CASE tk[i].kind = "reg" -> m.reg[tk[i].at]
    [] tk[i].kind = "stk" -> m.stack[Slot(tk[i].at)]
    [] tk[i].kind \in AtomKinds -> i

MovArgToReg(m, i, r) ==
  IF tk[i].kind = "reg" THEN m ELSE Mov(m, r, ValueOf(m, i))

(* r := r op q, where r should hold operand x and q operand y. *)
Compute(m, r, x, q, y) ==
  Mov(m, r, IF m.reg[r] = x /\ m.reg[q] = y THEN Result ELSE Garbage)

(* The result stays in r, or goes to the word pushed for it and RAX gets   *)
(* back what the word above it kept.                                       *)
(* Forgets to count the word popped. *)
SetArgNoCount(m, r, pos) ==
  IF r # NoReg THEN m
  ELSE [Pop(Store(m, pos, RAX), RAX) EXCEPT !.im = m.im]
SetArg(m, r, pos) == IF r # NoReg THEN m ELSE Pop(Store(m, pos, RAX), RAX)
ArgOf(m, r) == IF r # NoReg THEN [kind |-> "reg", at |-> r]
                            ELSE [kind |-> "stk", at |-> m.im - 1]

----------------------------------------------------------------------------
(* Operand n and those after it give way to t, whose value is Result. *)
Renamed(v, n) ==
  IF v = Result THEN n ELSE IF v \in n..MaxTks THEN Garbage ELSE v

Finish(m, n, t) ==
  /\ m.im <= MaxIm
  /\ tk' = Append(SubSeq(tk, 1, n - 1), t)
  /\ used' = m.used
  /\ im' = m.im
  /\ reg' = [r \in Regs |-> Renamed(m.reg[r], n)]
  /\ stack' = [k \in 1..Len(m.stack) |-> Renamed(m.stack[k], n)]

(* The result is in r, or in RAX for the word that was pushed for it. *)
Deliver(m, r, n) == Finish(SetArg(m, r, im + 1), n, ArgOf(m, r))

Blame(wrong, name) == cause' = IF cause = "none" /\ wrong THEN name ELSE cause

(* The assembler refuses an instruction whose register is 0. *)
Reject == /\ cause' = "rejected"
          /\ UNCHANGED <<tk, used, im, reg, stack>>

N == Len(tk)
IsValue(i) == tk[i].kind # "func"
IsLit(i) == tk[i].kind = "lit"
Ready(k) == /\ cause # "rejected"
            /\ N >= k
            /\ \A i \in (N - k + 1)..N : IsValue(i)

PushAtom(k) ==
  /\ cause # "rejected"
  /\ N < MaxTks
  /\ tk' = Append(tk, Atom(k))
  /\ UNCHANGED <<used, im, reg, stack, cause>>

(* Operators on literals are computed at compile time. *)
Fold(k) ==
  /\ Ready(k)
  /\ \A i \in (N - k + 1)..N : IsLit(i)
  /\ Finish(Here, N - k + 1, Atom("lit"))
  /\ UNCHANGED cause

Unary ==
  /\ Ready(1) /\ ~IsLit(N)
  /\ LET r == ArgReg(Here, N)
         m == MovArgToReg(AsgnRegOrStack(Here, N), N, OrElse(r, RAX))
         c == Compute(m, OrElse(r, RAX), N, OrElse(r, RAX), N)
     IN Deliver(c, r, N)
  /\ UNCHANGED cause

(* The two-operand instruction on operands x and y; its result becomes     *)
(* operand N - 1.  It goes wrong when neither operand has a register: RAX  *)
(* is then saved twice, the second time after it was given operand x.      *)
NonLitBinary(x, y) ==
  LET regL == ArgReg(Here, x)
      l == OrElse(regL, RAX)
      m1 == MovArgToReg(AsgnRegOrStack(Here, x), x, l)
      regR == ArgReg(m1, y)
      replacement == IF regL = RDX THEN RCX ELSE RDX
      r == OrElse(regR, replacement)
      m2 == AsgnRegOrStack(m1, y)
      m3 == PushIf(regR = NoReg, m2, replacement)
      m4 == Compute(MovArgToReg(m3, y, r), l, x, r, y)
      m5 == PopOrFree(m4, regR, replacement)
  IN /\ Deliver(m5, regL, N - 1)
     /\ IF regL = NoReg /\ regR \in {NoReg, RAX}
        THEN Blame(TRUE, "full")
        ELSE Blame(x = y /\ tk[x].kind = "reg", "double")

Binary ==
  /\ Ready(2) /\ ~(IsLit(N - 1) /\ IsLit(N))
  /\ NonLitBinary(N - 1, N)

(* Times 0, 1 and 2, with the literal on either side.  For 2 the other     *)
(* operand is added to itself: as right operand its register is freed,     *)
(* and as left operand the same register holds the result.                 *)
OneLit == Ready(2) /\ IsLit(N - 1) # IsLit(N)
NonLit == IF IsLit(N) THEN N - 1 ELSE N

TimesZero ==
  /\ OneLit
  /\ Finish(Here, N - 1, Atom("lit"))
  /\ UNCHANGED cause

TimesOne ==
  /\ OneLit
  /\ LET IsResult(v) == IF v = NonLit THEN Result ELSE v IN
     Finish([used |-> used, im |-> im,
             reg |-> [r \in Regs |-> IsResult(reg[r])],
             stack |-> [k \in 1..Len(stack) |-> IsResult(stack[k])]],
            N - 1, tk[NonLit])
  /\ UNCHANGED cause

TimesTwo ==
  /\ OneLit
  /\ NonLitBinary(NonLit, NonLit)

(* Bit shifts.  The count has to be in RCX, so a left operand there moves  *)
(* to another register, and another operand there is set aside.            *)
InReg(i, r) == tk[i].kind = "reg" /\ tk[i].at = r
ShiftReg ==
  LET r == ArgReg(Here, N - 1)
  IN IF r = RCX THEN NextIMRegister(used \cup {RCX}) ELSE r

SaveRCXIn(m, keep, tmp) ==
  IF ~keep THEN m
  ELSE IF tmp = NoReg THEN Push(m, RCX) ELSE MovReg(Take(m, tmp), tmp, RCX)
RestoreRCX(m, tmp) ==
  IF tmp = NoReg THEN Pop(m, RCX)
  ELSE IF tmp = RCX THEN m ELSE Free(MovReg(m, RCX, tmp), tmp)

ShiftLhs ==
  LET r == ArgReg(Here, N - 1)
      m1 == Take(Here, r)
      m2 == IF r = RCX THEN Free(Take(m1, ShiftReg), RCX) ELSE m1
      m3 == IF InReg(N - 1, RCX) THEN MovReg(m2, ShiftReg, RCX) ELSE m2
      m4 == IF ShiftReg = NoReg THEN Push(Push(m3, RAX), RAX) ELSE m3
  IN MovArgToReg(m4, N - 1, OrElse(ShiftReg, RAX))

NoRegToShiftIn == InReg(N - 1, RCX) /\ ShiftReg = NoReg

ShiftByLit ==
  /\ Ready(2) /\ IsLit(N) /\ ~IsLit(N - 1)
  /\ IF NoRegToShiftIn THEN Reject
     ELSE LET l == OrElse(ShiftReg, RAX)
              c == Compute(ShiftLhs, l, N - 1, l, N - 1)
          IN /\ Deliver(c, ShiftReg, N - 1)
             /\ UNCHANGED cause

ShiftByValue ==
  /\ Ready(2) /\ ~IsLit(N)
  /\ IF NoRegToShiftIn THEN Reject
     ELSE LET m1 == ShiftLhs
              l == OrElse(ShiftReg, RAX)
              keep == RCX \in m1.used /\ ~InReg(N, RCX)
              tmp == IF keep THEN NextIMRegister(m1.used) ELSE RCX
              m2 == SaveRCXIn(m1, keep, tmp)
              m3 == MovArgToReg(m2, N, RCX)
              m4 == IF tk[N].kind = "reg" /\ tk[N].at # RCX
                    THEN Free(MovReg(m3, RCX, tk[N].at), tk[N].at) ELSE m3
              m5 == Compute(m4, l, N - 1, RCX, N)
              m6 == RestoreRCX(m5, tmp)
          IN /\ Deliver(m6, ShiftReg, N - 1)
             /\ Blame(ShiftReg = NoReg /\ InReg(N, RAX), "full")

----------------------------------------------------------------------------
(* Division and modulo.  The instruction takes its left operand in RAX and *)
(* leaves the quotient there and the remainder in RDX.  With no register   *)
(* for the divisor, RCX is pushed last, RDX is popped first and RCX last,  *)
(* over the result if it is there.  For "%" a left operand in another      *)
(* register is not moved to RAX.  When it is in any register, RDX counts   *)
(* as free afterwards, whoever holds it.                                   *)
DivRegL == ArgReg(Here, N - 1)
(* Forgets that the division uses RAX and RDX. *)
DivRegRAny == IF tk[N].kind = "reg" THEN tk[N].at
              ELSE NextIMRegister(used \cup {DivRegL})
DivRegR ==
  IF tk[N].kind = "reg" /\ tk[N].at \notin {RAX, RDX} THEN tk[N].at
  ELSE NextIMRegister(used \cup {DivRegL, RAX, RDX})

(* The quotient or the remainder goes to the result's register; RAX and    *)
(* RDX are overwritten.                                                    *)
Divided(m) ==
  Mov(Mov(Mov(m, RAX, Garbage), RDX, Garbage), DivRegL, m.reg[RAX])

DivMod(isDiv) ==
  /\ Ready(2) /\ ~(IsLit(N - 1) /\ IsLit(N))
  /\ IF DivRegL = NoReg \/ (tk[N].kind = "reg" /\ DivRegR = NoReg) THEN Reject
     ELSE LET lhsInReg == tk[N - 1].kind = "reg"
              m1 == Take(Take(Here, DivRegL), DivRegR)
              InWay(q) == q \in m1.used /\ q # DivRegL
              Pushed(q) == InWay(q) /\ ~InReg(N, q)
              SetAside(m, q) == IF Pushed(q) THEN Push(m, q)
                                ELSE IF InWay(q) THEN Mov(m, DivRegR, m.reg[q])
                                ELSE m
              m2 == SetAside(SetAside(m1, RAX), RDX)
              m3 == PushOrFree(m2, DivRegR, RCX)
              d == OrElse(DivRegR, RCX)
              m4 == MovArgToReg(m3, N - 1, RAX)
              m5 == IF isDiv /\ lhsInReg THEN MovReg(m4, RAX, tk[N - 1].at)
                                         ELSE m4
              m6 == Compute(MovArgToReg(m5, N, d), RAX, N - 1, d, N)
              m7 == Divided(m6)
              m8 == PopIf(Pushed(RDX), m7, RDX)
              m9 == IF lhsInReg THEN Free(m8, RDX) ELSE m8
              m10 == PopIf(DivRegR = NoReg, m9, RCX)
              m11 == PopIf(Pushed(RAX), m10, RAX)
          IN /\ Finish(m11, N - 1, ArgOf(m11, DivRegL))
             /\ Blame(\/ DivRegR = NoReg /\ (Pushed(RDX) \/ DivRegL = RCX)
                      \/ ~isDiv /\ lhsInReg /\ ~InReg(N - 1, RAX)
                      \/ lhsInReg /\ \E i \in 1..(N - 1) : InReg(i, RDX),
                      "divmod")

----------------------------------------------------------------------------
(* Calls: the registers in use are pushed, lowest first, then the          *)
(* arguments; the callee may change every register and returns in RAX.     *)
Rank(S, r) == Cardinality({q \in S : q <= r})

UsedRegPreserve(m) ==
  LET saved == [k \in 1..Cardinality(m.used) |->
                  m.reg[CHOOSE r \in m.used : Rank(m.used, r) = k]]
  IN [m EXCEPT !.stack = @ \o saved, !.im = @ + Len(saved)]

UsedRegRestore(m, lowest) ==
  LET back == {r \in m.used : r >= lowest}
      left == Len(m.stack) - Cardinality(back)
  IN [m EXCEPT !.reg = [r \in Regs |-> IF r \in back
                          THEN m.stack[left + Rank(back, r)] ELSE @[r]],
               !.stack = SubSeq(@, 1, left),
               !.im = @ - Cardinality(back)]

(* An argument that is not in a register passes through one that is free,  *)
(* the registers of the arguments before it included.                      *)
ArgsHaveRegs(k) ==
  \A i \in (N - k + 1)..N :
     \/ tk[i].kind = "reg"
     \/ ~(Regs \subseteq used \ {tk[j].at : j \in {h \in (N - k + 1)..(i - 1) :
                                                     tk[h].kind = "reg"}})

RegRet == IF RAX \in used THEN NextIMRegister(used) ELSE RAX

FuncCall(k) ==
  /\ Ready(k) /\ N > k /\ tk[N - k].kind = "func"
  /\ IF ~ArgsHaveRegs(k) \/ RegRet = NoReg THEN Reject
     ELSE LET m1 == UsedRegPreserve(Here)
              right == \A i \in (N - k + 1)..N : ValueOf(m1, i) = i
              m2 == [m1 EXCEPT !.reg = [r \in Regs |->
                       IF r = RAX /\ right THEN Result ELSE Garbage]]
              m3 == IF RAX \notin used THEN UsedRegRestore(m2, RAX)
                    ELSE LET m == UsedRegRestore(m2, RCX)
                         IN Pop(Mov(m, RegRet, m.reg[RAX]), RAX)
          IN /\ Finish(Take(m3, RegRet), N - k, ArgOf(m3, RegRet))
             /\ UNCHANGED cause

(* The end of the expression drops what it left on the stack. *)
EndExp ==
  /\ Ready(1) /\ N = 1
  /\ tk' = <<>>
  /\ used' = {}
  /\ im' = 0
  /\ reg' = [r \in Regs |-> Garbage]
  /\ stack' = SubSeq(stack, 1, Len(stack) - im)
  /\ UNCHANGED cause

----------------------------------------------------------------------------
Init ==
  /\ tk = <<>>
  /\ used = {}
  /\ im = 0
  /\ reg = [r \in Regs |-> Garbage]
  /\ stack = [k \in 1..Vars |-> Variable]
  /\ cause = "none"

Next ==
  \/ \E k \in AtomKinds : PushAtom(k)
  \/ \E k \in 1..2 : Fold(k)
  \/ Unary \/ Binary \/ TimesZero \/ TimesOne \/ TimesTwo
  \/ ShiftByLit \/ ShiftByValue
  \/ \E isDiv \in BOOLEAN : DivMod(isDiv)
  \/ \E k \in 0..MaxTks : FuncCall(k)
  \/ EndExp

Spec == Init /\ [][Next]_vars

----------------------------------------------------------------------------
TypeOK ==
  /\ tk \in Seq(Operands) /\ N <= MaxTks
  /\ used \subseteq Regs
  /\ im \in 0..MaxIm
  /\ reg \in [Regs -> Values]
  /\ stack \in Seq(Values)
  /\ cause \in {"none", "full", "double", "divmod", "rejected"}

(* The stack is as deep as imStackSize says, so what the end of the        *)
(* expression adds to RSP takes it back to where the statement began.      *)
StackInSync == Len(stack) = Vars + im

(* Every pending operand has its value where the compiler will look for    *)
(* it, in a register marked as used or in a word still on the stack.       *)
Kept(i) ==
  CASE tk[i].kind = "reg" -> tk[i].at \in used /\ reg[tk[i].at] = i
    [] tk[i].kind = "stk" -> tk[i].at \in 1..im /\ stack[Slot(tk[i].at)] = i
    [] tk[i].kind \in AtomKinds -> TRUE

Blamed(names) == cause \in names \cup {"rejected"}
ValuesKept == \A i \in 1..N : Kept(i)
NoneLost == Blamed({"double", "divmod", "full"}) \/ ValuesKept

(* Evaluating an expression without assignments changes no variable. *)
VariablesKept == \A k \in 1..Vars : stack[k] = Variable
=============================================================================
