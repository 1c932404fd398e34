------------------------------- MODULE Encode -------------------------------
(***************************************************************************)
(* Machine code of one intermediate instruction (elf64.c, the cases of     *)
(* ba_WriteBinary that know no label) and the size ba_PessimalInstrSize    *)
(* gives it.  An instruction is [op, d, s], its operands tagged records;   *)
(* registers are 0..15 in the order of the BA_IM enumeration (0 RAX, 1     *)
(* RCX, 2 RDX, 3 RBX, 4 RSP, 5 RBP, 6 RSI, 7 RDI, then R8 to R15).  A      *)
(* 64-bit value is the tuple of its eight bytes, lowest first.             *)
(***************************************************************************)
EXTENDS Integers, Sequences

CONSTANTS Regs,     \* the registers instructions are made from
          Values,   \* the immediates and offsets they are made from
          Junk      \* what a byte of a fresh buffer may hold

Byte == 0..255

ASSUME DomainsAssumption ==
  /\ Regs \subseteq 0..15 /\ {0, 4} \subseteq Regs
  /\ Values \subseteq [1..8 -> Byte]
  /\ Junk \subseteq Byte /\ Junk # {}

VARIABLES im,       \* the instruction
          junk,     \* what the next byte of the code buffer holds
          code,     \* the bytes written for it
          status    \* "next", "done" or "error"

vars == <<im, junk, code, status>>

----------------------------------------------------------------------------
(* Values and fields.                                                      *)

Bit(c) == IF c THEN 1 ELSE 0
Hi(r) == r \div 8
Lo(r) == r % 8

IsZero(v) == \A i \in 1..8 : v[i] = 0
Below(v, n, top) == v[n] < top /\ \A i \in (n + 1)..8 : v[i] = 0
Below7(v) == Below(v, 1, 128)
Below31(v) == Below(v, 4, 128)
Below32(v) == Below(v, 4, 256)
Low(v, n) == SubSeq(v, 1, n)
FirstSet(v) == CHOOSE k \in 1..8 : v[k] # 0 /\ \A i \in 1..(k - 1) : v[i] = 0
Neg(v) == IF IsZero(v) THEN v
          ELSE [i \in 1..8 |-> IF i < FirstSet(v) THEN 0
                               ELSE 255 - v[i] + Bit(i = FirstSet(v))]

Rex(w, r, x, b) == 64 + 8 * w + 4 * r + 2 * x + b
ModRM(mod, r, m) == 64 * mod + 8 * Lo(r) + Lo(m)
Prefix(needed, byte) == IF needed THEN <<byte>> ELSE <<>>

----------------------------------------------------------------------------
(* Operands.                                                               *)

None == [k |-> "none"]
Gpr(r) == [k |-> "gpr", r |-> r]
Gprb(r) == [k |-> "gprb", r |-> r]
Imm(v) == [k |-> "imm", v |-> v]
Static(v) == [k |-> "static", v |-> v]
Adr(r) == [k |-> "adr", r |-> r]
Ofst(k, r, v) == [k |-> k, r |-> r, v |-> v]
Idx(r, f, x) == [k |-> "idx", r |-> r, f |-> f, x |-> x]
Ins(op, d, s) == [op |-> op, d |-> d, s |-> s]

AdrAdds == {"adradd", "adrsub"}
Adr64Adds == {"64adradd", "64adrsub"}
IsSub(o) == o.k \in {"adrsub", "64adrsub"}

(* [reg] *)
Plain(r, o) ==
  CASE Lo(o.r) = 4 -> <<ModRM(0, r, o.r), 36>>
    [] Lo(o.r) = 5 -> <<ModRM(1, r, o.r), 0>>
    [] OTHER -> <<ModRM(0, r, o.r)>>

Sib(o) == Prefix(Lo(o.r) = 4, 36)
Disp(o) == IF IsSub(o) THEN Neg(o.v) ELSE o.v
OfstSz(o) == Bit(~IsZero(o.v) \/ Lo(o.r) = 5) + 3 * Bit(~Below7(o.v))

(* [reg + offset] to read or take the address of: no byte for the offset 0, *)
(* but with RBP and R13 it is counted and not written.                     *)
Load(r, o) ==
  <<ModRM(Bit(OfstSz(o) > 0) + Bit(~Below7(o.v)), r, o.r)>> \o Sib(o)
    \o IF IsZero(o.v) THEN Prefix(Lo(o.r) = 5, junk) ELSE Low(Disp(o), OfstSz(o))

(* Slip: RSP and R12 without their extra byte. *)
StoreNoSib(r, o) ==
  <<ModRM(1 + Bit(~Below7(o.v)), r, o.r)>>
    \o Low(Disp(o), IF Below7(o.v) THEN 1 ELSE 4)

(* [reg + offset] to write to. *)
Store(r, o) ==
  <<ModRM(1 + Bit(~Below7(o.v)), r, o.r)>> \o Sib(o)
    \o Low(Disp(o), IF Below7(o.v) THEN 1 ELSE 4)

Log2(f) == Bit(f >= 2) + Bit(f >= 4) + Bit(f = 8)

(* REX of an instruction with register r and memory or register m. *)
RexW(r, m) == Rex(1, Hi(r), 0, Hi(m))
RexB(r, m) == Rex(0, Hi(r), 0, Hi(m))

(* Slip: base and index in each other's field. *)
IndexedSwapped(opcode, r, o) ==
  <<RexW(r, o.r), opcode, ModRM(Bit(Lo(o.r) = 5), r, 4),
    ModRM(Log2(o.f), o.r, o.x)>> \o Prefix(Lo(o.r) = 5, 0)

(* [reg + factor * reg] *)
Indexed(opcode, r, o) ==
  <<RexW(r, o.r), opcode, ModRM(Bit(Lo(o.r) = 5), r, 4),
    ModRM(Log2(o.f), o.x, o.r)>> \o Prefix(Lo(o.r) = 5, 0)

----------------------------------------------------------------------------
(* The cases of ba_WriteBinary.                                            *)

(* A static address is marked with the highest bit so that it takes eight  *)
(* bytes; the writer corrects it once the code's size is known.            *)
Marked(v) == [v EXCEPT ![8] = 128 + (v[8] % 128)]

MovImm(d, v) ==
  IF Below32(v)
  THEN Prefix(d.r >= 8, 65) \o <<184 + Lo(d.r)>> \o Low(v, 4)
  ELSE <<Rex(1, 0, 0, Hi(d.r)), 184 + Lo(d.r)>> \o v

MovGpr(d, s) ==
  CASE s.k = "gpr" -> <<RexW(s.r, d.r), 137, ModRM(3, s.r, d.r)>>
    [] s.k = "adr" -> <<RexW(d.r, s.r), 139>> \o Plain(d.r, s)
    [] s.k \in AdrAdds -> <<RexW(d.r, s.r), 139>> \o Load(d.r, s)
    [] s.k = "idx" -> Indexed(139, d.r, s)
    [] s.k = "imm" -> MovImm(d, s.v)
    [] s.k = "static" -> MovImm(d, Marked(s.v))

MovGprb(d, s) ==
  CASE s.k = "adr" ->
         Prefix(d.r >= 4 \/ s.r >= 8, RexB(d.r, s.r)) \o <<138>> \o Plain(d.r, s)
    [] s.k \in AdrAdds ->
         Prefix(d.r >= 4 \/ s.r >= 4, RexB(d.r, s.r)) \o <<138>> \o Load(d.r, s)
    [] s.k = "imm" ->
         Prefix(d.r >= 4, Rex(0, 0, 0, Hi(d.r))) \o <<176 + Lo(d.r), s.v[1]>>

MovAdr(d, s) ==
  CASE s.k = "gpr" -> <<RexW(s.r, d.r), 137>> \o Plain(s.r, d)
    [] s.k = "gprb" ->
         Prefix(s.r >= 4 \/ d.r >= 8, RexB(s.r, d.r)) \o <<136>> \o Plain(s.r, d)

MovAdrAdd(d, s) ==
  CASE s.k = "gpr" -> <<RexW(s.r, d.r), 137>> \o Store(s.r, d)
    [] s.k = "gprb" ->
         Prefix(s.r >= 4 \/ d.r >= 8, RexB(s.r, d.r)) \o <<136>> \o Store(s.r, d)
    [] s.k = "imm" ->
         <<Rex(1, 0, 0, Hi(d.r)), 199>> \o Store(0, d) \o Low(s.v, 4)

Mov(d, s) ==
  CASE d.k = "gpr" -> MovGpr(d, s)
    [] d.k = "gprb" -> MovGprb(d, s)
    [] d.k = "adr" -> MovAdr(d, s)
    [] OTHER -> MovAdrAdd(d, s)

Lea(d, s) == IF s.k = "idx" THEN Indexed(141, d.r, s)
             ELSE <<RexW(d.r, s.r), 141>> \o Load(d.r, s)

Digit == [ADD |-> 0, OR |-> 1, AND |-> 4, SUB |-> 5, XOR |-> 6, CMP |-> 7]

(* Two-operand arithmetic on a 64-bit register, a byte register, memory. *)
AluGpr(op, d, s) ==
  CASE s.k = "gpr" ->
         Prefix(op # "XOR" \/ d.r # s.r \/ d.r >= 8, RexW(s.r, d.r))
           \o <<1 + 8 * Digit[op], ModRM(3, s.r, d.r)>>
    [] s.k = "imm" /\ Below7(s.v) ->
         <<Rex(1, 0, 0, Hi(d.r)), 131, ModRM(3, Digit[op], d.r), s.v[1]>>
    [] s.k = "imm" /\ ~Below7(s.v) /\ d.r = 0 ->
         <<Rex(1, 0, 0, 0), 5 + 8 * Digit[op]>> \o Low(s.v, 4)
    [] OTHER ->
         <<Rex(1, 0, 0, Hi(d.r)), 129, ModRM(3, Digit[op], d.r)>> \o Low(s.v, 4)

(* Slip: the sum in more than a byte. *)
AluGprbWide(op, d, s) ==
  CASE s.k = "gprb" ->
         Prefix(d.r >= 4 \/ s.r >= 4, RexB(s.r, d.r))
           \o <<8 * Digit[op], ModRM(3, s.r, d.r)>>
    [] s.k = "imm" /\ d.r = 0 -> <<4 + 8 * Digit[op], s.v[1]>>
    [] OTHER ->
         Prefix(d.r >= 4, 64 + Hi(d.r))
           \o <<128, 4 + 8 * Digit[op] + 192 + Lo(d.r), s.v[1]>>

(* The opcode of AL, IMM is added into the operand byte of every register. *)
AluGprb(op, d, s) ==
  CASE s.k = "gprb" ->
         Prefix(d.r >= 4 \/ s.r >= 4, RexB(s.r, d.r))
           \o <<8 * Digit[op], ModRM(3, s.r, d.r)>>
    [] s.k = "imm" /\ d.r = 0 -> <<4 + 8 * Digit[op], s.v[1]>>
    [] OTHER ->
         Prefix(d.r >= 4, 64 + Hi(d.r))
           \o <<128, (4 + 8 * Digit[op] + 192 + Lo(d.r)) % 256, s.v[1]>>

(* The bit of a high register is put where the operand size already is. *)
AluAdrAdd(op, d, s) ==
  <<Rex(1, 0, 0, Hi(d.r)), 1 + 8 * Digit[op]>> \o Store(s.r, d)

Alu(op, d, s) ==
  CASE d.k = "gpr" -> AluGpr(op, d, s)
    [] d.k = "gprb" -> AluGprb(op, d, s)
    [] OTHER -> AluAdrAdd(op, d, s)

Unary(op, d) ==
  <<Rex(1, 0, 0, Hi(d.r)), IF op \in {"INC", "DEC"} THEN 255 ELSE 247,
    ModRM(3, [INC |-> 0, DEC |-> 1, NOT |-> 2, NEG |-> 3][op], d.r)>>

Test(d, s) ==
  IF d.k = "gpr" THEN <<RexW(s.r, d.r), 133, ModRM(3, s.r, d.r)>>
  ELSE Prefix(d.r >= 4 \/ s.r >= 4, RexB(s.r, d.r)) \o <<132, ModRM(3, s.r, d.r)>>

ShiftDigit == [ROL |-> 0, ROR |-> 1, SHL |-> 4, SHR |-> 5, SAR |-> 7]

Shift(op, d, s) ==
  LET head(opcode) == <<Rex(1, 0, 0, Hi(d.r)), opcode, ModRM(3, ShiftDigit[op], d.r)>>
  IN CASE s.k = "gprb" -> head(211)
       [] s.k = "imm" /\ s.v[1] = 1 -> head(209)
       [] OTHER -> Append(head(193), s.v[1])

MulDiv(op, d) ==
  <<Rex(1, 0, 0, Hi(d.r)), 247, ModRM(3, [MUL |-> 4, DIV |-> 6, IDIV |-> 7][op], d.r)>>

Imul(d, s) == <<RexW(d.r, s.r), 15, 175, ModRM(3, d.r, s.r)>>

PushPop(op, d) ==
  CASE d.k = "gpr" -> Prefix(d.r >= 8, 65) \o <<80 + 8 * Bit(op = "POP") + Lo(d.r)>>
    [] d.k # "gpr" /\ Below7(d.v) -> <<106, d.v[1]>>
    [] OTHER -> <<104>> \o Low(d.v, 4)

(* Slip: registers in each other's field. *)
MovzxSwapped(d, s) == <<RexW(s.r, d.r), 15, 182, ModRM(3, s.r, d.r)>>

Movzx(d, s) == <<RexW(d.r, s.r), 15, 182, ModRM(3, d.r, s.r)>>

Condition == [SETS |-> 8, SETNS |-> 9, SETZ |-> 4, SETNZ |-> 5, SETB |-> 2,
              SETBE |-> 6, SETA |-> 7, SETAE |-> 3, SETL |-> 12, SETLE |-> 14,
              SETG |-> 15, SETGE |-> 13]

SetCc(op, d) ==
  Prefix(d.r >= 4, Rex(0, 0, 0, Hi(d.r))) \o <<15, 144 + Condition[op], 192 + Lo(d.r)>>

Fixed == [SYSCALL |-> <<15, 5>>, RET |-> <<195>>, CQO |-> <<72, 153>>, NOP |-> <<144>>]

UnaryOps == {"INC", "DEC", "NOT", "NEG"}
MulOps == {"MUL", "DIV", "IDIV"}

Encode(i) ==
  CASE i.op = "MOV" -> Mov(i.d, i.s)
    [] i.op = "LEA" -> Lea(i.d, i.s)
    [] i.op \in DOMAIN Digit -> Alu(i.op, i.d, i.s)
    [] i.op \in UnaryOps -> Unary(i.op, i.d)
    [] i.op = "TEST" -> Test(i.d, i.s)
    [] i.op \in DOMAIN ShiftDigit -> Shift(i.op, i.d, i.s)
    [] i.op \in MulOps -> MulDiv(i.op, i.d)
    [] i.op = "IMUL" -> Imul(i.d, i.s)
    [] i.op \in {"PUSH", "POP"} -> PushPop(i.op, i.d)
    [] i.op = "MOVZX" -> Movzx(i.d, i.s)
    [] i.op \in DOMAIN Condition -> SetCc(i.op, i.d)
    [] OTHER -> Fixed[i.op]

(* The instructions the writer stops at. *)
Refuses(i) ==
  \/ i.op = "MOV" /\ i.d.k \in AdrAdds \cup Adr64Adds /\ ~Below31(i.d.v)
  \/ i.op = "MOV" /\ i.d.k \in AdrAdds /\ i.s.k = "imm"
  \/ i.op \in DOMAIN Digit /\ i.d.k \in AdrAdds /\ ~Below31(i.d.v)
  \/ i.op \in DOMAIN Digit /\ i.d.k = "gpr" /\ i.s.k = "imm" /\ ~Below31(i.s.v)
  \/ i.op \in DOMAIN ShiftDigit /\ i.s.k = "imm" /\ ~Below(i.s.v, 1, 64)
  \/ i.s.k = "idx" /\ i.s.x = 4

----------------------------------------------------------------------------
(* ba_PessimalInstrSize.                                                   *)

PessimalMov(d, s) ==
  CASE d.k = "gpr" /\ s.k = "gpr" -> 3
    [] d.k = "gpr" /\ s.k = "adr" -> 3 + Bit(Lo(d.r) = 4)
    [] d.k = "gpr" /\ s.k \in AdrAdds -> 3 + Bit(Lo(s.r) \in {4, 5}) + OfstSz(s)
    [] d.k = "gpr" /\ s.k = "idx" -> 4 + Bit(Lo(s.r) = 5)
    [] d.k = "gpr" /\ s.k = "imm" -> IF Below32(s.v) THEN 5 + Bit(d.r >= 8) ELSE 10
    [] d.k = "gpr" /\ s.k = "static" -> 10
    [] d.k = "gprb" /\ s.k \in AdrAdds ->
         2 + Bit(d.r >= 4 \/ s.r >= 4) + Bit(Lo(s.r) = 4) + OfstSz(s)
    [] d.k = "gprb" /\ s.k = "adr" ->
         2 + Bit(d.r >= 4 \/ s.r >= 8) + Bit(Lo(s.r) \in {4, 5})
    [] d.k = "gprb" /\ s.k = "imm" -> 2 + Bit(d.r >= 4)
    [] d.k = "adr" /\ s.k = "gpr" -> 3 + Bit(Lo(d.r) \in {4, 5})
    [] d.k = "adr" /\ s.k = "gprb" ->
         2 + Bit(Lo(d.r) \in {4, 5}) + Bit(s.r >= 4 \/ d.r >= 8)
    [] d.k \in AdrAdds \cup Adr64Adds /\ s.k = "gpr" ->
         4 + 3 * Bit(~Below7(d.v)) + Bit(Lo(d.r) = 4)
    [] d.k \in AdrAdds \cup Adr64Adds /\ s.k = "gprb" ->
         3 + Bit(d.r >= 4 \/ s.r >= 4) + 3 * Bit(~Below7(d.v)) + Bit(Lo(d.r) = 4)
    [] d.k \in Adr64Adds /\ s.k = "imm" ->
         4 + 4 + 3 * Bit(~Below7(d.v)) + Bit(Lo(d.r) = 4)

(* For memory the low bits of ADRADD (3) and ADRSUB (4) are taken for the  *)
(* register's.                                                             *)
PessimalAlu(d, s) ==
  CASE d.k = "gpr" /\ s.k = "gpr" -> 3
    [] d.k = "gpr" /\ s.k = "imm" -> 4 + 2 * Bit(~Below7(s.v))
    [] d.k \in AdrAdds -> 4 + 3 * Bit(~Below7(d.v)) + Bit(d.k = "adrsub")
    [] d.k = "gprb" /\ s.k = "gprb" -> 2 + Bit(d.r >= 4 \/ s.r >= 4)
    [] d.k = "gprb" /\ s.k = "imm" -> 2 + Bit(d.r = 0) + Bit(d.r >= 2)

(* Slip: registers from R8 on forgotten. *)
PessimalPushNarrow(d) == IF d.k = "gpr" THEN 1 ELSE 2 + 3 * Bit(~Below7(d.v))

PessimalPush(d) ==
  IF d.k = "gpr" THEN 1 + Bit(d.r >= 8) ELSE 2 + 3 * Bit(~Below7(d.v))

PessimalInstrSize(i) ==
  CASE i.op \in {"MOV", "LEA"} -> PessimalMov(i.d, i.s)
    [] i.op \in DOMAIN Digit -> PessimalAlu(i.d, i.s)
    [] i.op \in UnaryOps \cup MulOps -> 3
    [] i.op = "TEST" ->
         IF i.d.k = "gpr" THEN 3 ELSE 2 + Bit(i.d.r >= 4 \/ i.s.r >= 4)
    [] i.op \in DOMAIN ShiftDigit ->
         IF i.s.k = "gprb" \/ i.s.v[1] = 1 THEN 3 ELSE 4
    [] i.op \in {"PUSH", "POP"} -> PessimalPush(i.d)
    [] i.op \in {"IMUL", "MOVZX"} -> 4
    [] i.op \in DOMAIN Condition -> 3 + Bit(i.d.r >= 4)
    [] OTHER -> IF i.op \in {"SYSCALL", "CQO"} THEN 2 ELSE 1

----------------------------------------------------------------------------
(* The instructions the writer accepts.                                    *)

All(op, D, S) == {Ins(op, d, s) : d \in D, s \in S}
G == {Gpr(r) : r \in Regs}
B == {Gprb(r) : r \in Regs}
A == {Adr(r) : r \in Regs}
O(kinds) == {Ofst(k, r, v) : k \in kinds, r \in Regs, v \in Values}
X == {Idx(r, f, x) : r \in Regs, f \in {1, 2, 4, 8}, x \in Regs}
I == {Imm(v) : v \in Values}

Instructions ==
  UNION ({ All("MOV", G, G \cup A \cup O(AdrAdds) \cup X \cup I \cup {Static(v) : v \in Values}),
           All("MOV", B, A \cup O(AdrAdds) \cup I),
           All("MOV", A \cup O(AdrAdds), G \cup B),
           All("MOV", O(Adr64Adds), G \cup B \cup I),
           All("LEA", G, O(AdrAdds) \cup X),
           All("TEST", G, G), All("TEST", B, B),
           All("IMUL", G, G), All("MOVZX", G, B),
           All("PUSH", G \cup I, {None}), All("POP", G, {None}) }
    \cup {All(op, G, G \cup I) \cup All(op, B, B \cup I) \cup All(op, O(AdrAdds), G)
           : op \in DOMAIN Digit}
    \cup {All(op, G, {None}) : op \in UnaryOps \cup MulOps}
    \cup {All(op, G, {Gprb(1)} \cup I) : op \in DOMAIN ShiftDigit}
    \cup {All(op, B, {None}) : op \in DOMAIN Condition}
    \cup {All(op, {None}, {None}) : op \in DOMAIN Fixed})

Init ==
  /\ im \in Instructions
  /\ junk \in Junk
  /\ code = <<>>
  /\ status = "next"

Write ==
  /\ status = "next" /\ ~Refuses(im)
  /\ code' = Encode(im)
  /\ status' = "done"
  /\ UNCHANGED <<im, junk>>

Refuse ==
  /\ status = "next" /\ Refuses(im)
  /\ status' = "error"
  /\ UNCHANGED <<im, junk, code>>

Next == Write \/ Refuse

Spec == Init /\ [][Next]_vars

----------------------------------------------------------------------------
(* What the processor reads: a decoder for the part of x86-64 the writer   *)
(* uses.  A 32-bit operation clears the upper half of its register.        *)

SignExt(b) == [i \in 1..8 |-> IF i <= Len(b) THEN b[i]
                              ELSE IF b # <<>> /\ b[Len(b)] >= 128 THEN 255 ELSE 0]
ZeroExt(b) == [i \in 1..8 |-> IF i <= Len(b) THEN b[i] ELSE 0]
Zero == ZeroExt(<<>>)

NoIndex == 16
Reg(r) == [k |-> "reg", r |-> r]
Mem(b, x, f, v) == [k |-> "mem", b |-> b, x |-> x, f |-> f, v |-> v]

Cut(c, at, size) == SubSeq(c, at, at + size - 1)

(* The operand byte at position n, with the rest of the operand. *)
Operand(c, n, rex) ==
  LET mod == c[n] \div 64
      rm == c[n] % 8
      sib == mod # 3 /\ rm = 4
      low == IF sib THEN c[n + 1] % 8 ELSE rm
      size == IF mod = 1 THEN 1 ELSE IF mod = 2 \/ (mod = 0 /\ low = 5) THEN 4 ELSE 0
      at == n + 1 + Bit(sib)
      base == IF mod = 0 /\ low = 5 THEN NoIndex ELSE 8 * (rex % 2) + low
      x == IF sib THEN 8 * ((rex \div 2) % 2) + ((c[n + 1] \div 8) % 8) ELSE 4
      f == IF sib /\ x # 4 THEN <<1, 2, 4, 8>>[1 + c[n + 1] \div 64] ELSE 1
  IN [reg |-> 8 * ((rex \div 4) % 2) + ((c[n] \div 8) % 8),
      digit |-> (c[n] \div 8) % 8,
      rm |-> IF mod = 3 THEN Reg(base)
             ELSE Mem(base, IF x = 4 THEN NoIndex ELSE x, f, SignExt(Cut(c, at, size))),
      next |-> at + size]

AluNames == <<"ADD", "OR", "ADC", "SBB", "AND", "SUB", "XOR", "CMP">>
ShiftNames == <<"ROL", "ROR", "RCL", "RCR", "SHL", "SHR", "SAL", "SAR">>
UnaryNames == <<"TEST", "TEST", "NOT", "NEG", "MUL", "IMUL", "DIV", "IDIV">>
ConditionNames == <<"SETO", "SETNO", "SETB", "SETAE", "SETZ", "SETNZ", "SETBE", "SETA",
                    "SETS", "SETNS", "SETP", "SETNP", "SETL", "SETGE", "SETLE", "SETG">>

(* The code, and whatever comes after it. *)
Padded(bytes) == bytes \o [n \in 1..16 |-> 0]

(* Prefix and opcode, one of two bytes counted from 256 on, and the place  *)
(* where the operands begin.                                               *)
Lead(c) ==
  LET p == Bit(c[1] \in 64..79)
      two == Bit(c[p + 1] = 15)
  IN [p |-> p, rex |-> IF p = 1 THEN c[1] - 64 ELSE 0,
      o |-> IF two = 1 THEN 256 + c[p + 2] ELSE c[p + 1], n |-> p + 2 + two]

(* Without a prefix, 4 to 7 are the second bytes of RAX, RCX, RDX and RBX. *)
ByteReg(x, p) ==
  IF x.k = "reg" /\ p = 0 /\ x.r \in 4..7 THEN [k |-> "high", r |-> x.r] ELSE x

(* What was read, provided that it ends where the code ends. *)
Took(op, width, d, s, next, len) ==
  IF next = len + 1
  THEN [op |-> op, w |-> IF op = "XOR" /\ d = s /\ width = 32 THEN 64 ELSE width,
        d |-> d, s |-> s]
  ELSE None

Reading(h, c, len) ==
  LET o == h.o
      n == h.n
      e == Operand(c, n, h.rex)
      w == IF h.rex \div 8 = 1 THEN 64 ELSE 32
      r == Reg(e.reg)
      high(x) == ByteReg(x, h.p)
      short == Reg(8 * (h.rex % 2) + (o % 8))
      imm(at, size) == Cut(c, at, size)
      is(op, width, d, s, next) == Took(op, width, d, s, next, len)
  IN CASE o = 137 -> is("MOV", w, e.rm, r, e.next)
       [] o = 139 -> is("MOV", w, r, e.rm, e.next)
       [] o = 136 -> is("MOV", 8, high(e.rm), high(r), e.next)
       [] o = 138 -> is("MOV", 8, high(r), high(e.rm), e.next)
       [] o = 141 -> is("LEA", w, r, e.rm, e.next)
       [] o \in 184..191 /\ w = 64 -> is("MOV", 64, short, Imm(imm(n, 8)), n + 8)
       [] o \in 184..191 /\ w = 32 -> is("MOV", 64, short, Imm(ZeroExt(imm(n, 4))), n + 4)
       [] o \in 176..183 -> is("MOV", 8, high(short), Imm(ZeroExt(imm(n, 1))), n + 1)
       [] o = 199 -> is("MOV", w, e.rm, Imm(SignExt(imm(e.next, 4))), e.next + 4)
       [] o < 64 /\ o % 8 = 1 -> is(AluNames[o \div 8 + 1], w, e.rm, r, e.next)
       [] o < 64 /\ o % 8 = 0 -> is(AluNames[o \div 8 + 1], 8, high(e.rm), high(r), e.next)
       [] o < 64 /\ o % 8 = 5 ->
            is(AluNames[o \div 8 + 1], w, Reg(0), Imm(SignExt(imm(n, 4))), n + 4)
       [] o < 64 /\ o % 8 = 4 ->
            is(AluNames[o \div 8 + 1], 8, Reg(0), Imm(ZeroExt(imm(n, 1))), n + 1)
       [] o = 131 ->
            is(AluNames[e.digit + 1], w, e.rm, Imm(SignExt(imm(e.next, 1))), e.next + 1)
       [] o = 129 ->
            is(AluNames[e.digit + 1], w, e.rm, Imm(SignExt(imm(e.next, 4))), e.next + 4)
       [] o = 128 ->
            is(AluNames[e.digit + 1], 8, high(e.rm), Imm(ZeroExt(imm(e.next, 1))), e.next + 1)
       [] o = 255 -> is(IF e.digit = 0 THEN "INC" ELSE "DEC", w, e.rm, None, e.next)
       [] o = 247 -> is(UnaryNames[e.digit + 1], w, e.rm, None, e.next)
       [] o = 133 -> is("TEST", w, e.rm, r, e.next)
       [] o = 132 -> is("TEST", 8, high(e.rm), high(r), e.next)
       [] o = 211 -> is(ShiftNames[e.digit + 1], w, e.rm, Reg(1), e.next)
       [] o = 209 -> is(ShiftNames[e.digit + 1], w, e.rm, Imm(ZeroExt(<<1>>)), e.next)
       [] o = 193 ->
            is(ShiftNames[e.digit + 1], w, e.rm, Imm(ZeroExt(imm(e.next, 1))), e.next + 1)
       [] o \in 80..87 -> is("PUSH", 64, short, None, n)
       [] o \in 88..95 -> is("POP", 64, short, None, n)
       [] o = 106 -> is("PUSH", 64, Imm(SignExt(imm(n, 1))), None, n + 1)
       [] o = 104 -> is("PUSH", 64, Imm(SignExt(imm(n, 4))), None, n + 4)
       [] o = 195 -> is("RET", 64, None, None, n)
       [] o = 153 -> is("CQO", w, None, None, n)
       [] o = 144 -> is("NOP", 64, None, None, n)
       [] o = 261 -> is("SYSCALL", 64, None, None, n)
       [] o = 431 -> is("IMUL", w, r, e.rm, e.next)
       [] o = 438 -> is("MOVZX", w, r, high(e.rm), e.next)
       [] o \in 400..415 -> is(ConditionNames[o - 399], 8, high(e.rm), None, e.next)
       [] OTHER -> None

Decode(bytes) == LET c == Padded(bytes) IN Reading(Lead(c), c, Len(bytes))

(* What the instruction was to do. *)
Width(i) == IF i.op \in {"MOV", "TEST"} \cup DOMAIN Digit \cup DOMAIN Condition
               /\ "gprb" \in {i.d.k, i.s.k} THEN 8 ELSE 64

Place(o, w) ==
  CASE o.k \in {"gpr", "gprb"} -> Reg(o.r)
    [] o.k = "adr" -> Mem(o.r, NoIndex, 1, Zero)
    [] o.k \in AdrAdds \cup Adr64Adds -> Mem(o.r, NoIndex, 1, Disp(o))
    [] o.k = "idx" -> Mem(o.r, o.x, o.f, Zero)
    [] o.k = "imm" -> Imm(IF w = 8 THEN ZeroExt(Low(o.v, 1)) ELSE o.v)
    [] o.k = "static" -> Imm(Marked(o.v))
    [] OTHER -> None

Means(i) == [op |-> i.op, w |-> Width(i), d |-> Place(i.d, Width(i)), s |-> Place(i.s, Width(i))]

----------------------------------------------------------------------------
(* Properties.                                                             *)

(* Type invariant: what is written are bytes, at most the fifteen of the   *)
(* longest x86-64 instruction.                                             *)
TypeOK ==
  /\ im \in Instructions /\ junk \in Junk
  /\ \A n \in 1..Len(code) : code[n] \in Byte
  /\ Len(code) <= 15
  /\ status \in {"next", "done", "error"}

Fits32(v) == SignExt(Low(v, 4)) = v

(* The forms that come out as another instruction: an index register from  *)
(* R8 on, arithmetic from such a register to memory, arithmetic with an    *)
(* immediate on a byte register other than AL, the offset 0 from RBP or    *)
(* R13 unless the byte that is not written happens to be 0, and constants  *)
(* of more than 31 bits where no check stops them.                         *)
Misencoded(i) ==
  \/ i.s.k = "idx" /\ i.s.x >= 8
  \/ i.op \in DOMAIN Digit /\ i.d.k \in AdrAdds /\ i.s.r >= 8
  \/ i.op \in DOMAIN Digit /\ i.d.k = "gprb" /\ i.s.k = "imm" /\ i.d.r # 0
  \/ i.s.k \in AdrAdds /\ IsZero(i.s.v) /\ Lo(i.s.r) = 5 /\ junk # 0
  \/ i.s.k \in AdrAdds /\ ~Fits32(Disp(i.s))
  \/ i.d.k \in Adr64Adds /\ i.s.k = "imm" /\ ~Fits32(i.s.v)
  \/ i.op = "PUSH" /\ i.d.k = "imm" /\ ~Fits32(i.d.v)

(* Every instruction the writer accepts reads back as the operation, the   *)
(* operands and the width it was given, except exactly the forms above.    *)
MeaningKept == status = "done" => (Decode(code) = Means(im) <=> ~Misencoded(im))

(* The forms whose size is estimated too small. *)
Underestimated(i) ==
  \/ i.op = "MOV" /\ i.d.k = "gpr" /\ i.s.k = "adr" /\ Lo(i.s.r) \in {4, 5} /\ Lo(i.d.r) # 4
  \/ i.op \in DOMAIN Digit /\ i.d.k = "gpr" /\ i.s.k = "imm" /\ ~Below7(i.s.v) /\ i.d.r # 0
  \/ i.op \in DOMAIN Digit /\ i.d.k = "adradd" /\ Lo(i.d.r) = 4
  \/ i.op \in DOMAIN Digit /\ i.d.k = "gprb" /\ i.s.k = "imm" /\ (i.d.r = 1 \/ i.d.r >= 4)

(* The estimate the writer chooses the size of a forward jump by is never  *)
(* less than the bytes written, except for exactly the forms above, where  *)
(* one byte is missing.                                                    *)
SizeEstimated ==
  status = "done" => Len(code) <= PessimalInstrSize(im) + Bit(Underestimated(im))
                     /\ (Underestimated(im) => Len(code) = PessimalInstrSize(im) + 1)
=============================================================================
