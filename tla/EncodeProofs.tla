---------------------------- MODULE EncodeProofs ----------------------------
(***************************************************************************)
(* Proofs about Encode: what is written are bytes, no more than fifteen,   *)
(* as many as ba_PessimalInstrSize estimates but for the forms that are    *)
(* named there, and read back as the operation, the operands and the width *)
(* that were meant but for exactly the forms of Misencoded; for every      *)
(* register, value and byte of a fresh buffer.                             *)
(*                                                                         *)
(* What is read back follows the decoder from the inside out: the bytes of *)
(* a value and of the prefixes, each way to address an operand, the opcode *)
(* with its operands, and then one lemma for each form of an instruction.  *)
(***************************************************************************)
EXTENDS Encode, SequenceTheorems, TLAPS

Word8 == [1..8 -> Byte]

(* s is n bytes of code. *)
IsCode(s, n) == s \in Seq(Byte) /\ Len(s) = n

----------------------------------------------------------------------------
(* Bytes and their sequences.                                              *)

LEMMA NoCode == IsCode(<<>>, 0)
  BY DEF IsCode

LEMMA OneCode ==
  ASSUME NEW a \in Byte
  PROVE  IsCode(<<a>>, 1)
  BY DEF IsCode

LEMMA TwoCode ==
  ASSUME NEW a \in Byte, NEW b \in Byte
  PROVE  IsCode(<<a, b>>, 2)
  BY DEF IsCode

LEMMA ThreeCode ==
  ASSUME NEW a \in Byte, NEW b \in Byte, NEW c \in Byte
  PROVE  IsCode(<<a, b, c>>, 3)
  BY DEF IsCode

LEMMA FourCode ==
  ASSUME NEW a \in Byte, NEW b \in Byte, NEW c \in Byte, NEW d \in Byte
  PROVE  IsCode(<<a, b, c, d>>, 4)
  BY DEF IsCode

LEMMA JoinCode ==
  ASSUME NEW s, NEW t, NEW m \in Nat, NEW n \in Nat, IsCode(s, m), IsCode(t, n)
  PROVE  IsCode(s \o t, m + n)
  BY ConcatProperties DEF IsCode

LEMMA AppendCode ==
  ASSUME NEW s, NEW n \in Nat, IsCode(s, n), NEW b \in Byte
  PROVE  IsCode(Append(s, b), n + 1)
  BY AppendProperties DEF IsCode

LEMMA PrefixCode ==
  ASSUME NEW c, NEW b \in Byte
  PROVE  IsCode(Prefix(c, b), Bit(c))
  BY NoCode, OneCode DEF Prefix, Bit

LEMMA WholeCode ==
  ASSUME NEW v \in Word8
  PROVE  IsCode(v, 8)
  <1>1. v \in Seq(Byte)
    BY SeqDef DEF Word8
  <1>2. DOMAIN v = 1..Len(v) /\ Len(v) \in Nat /\ DOMAIN v = 1..8
    BY <1>1, LenProperties DEF Word8
  <1>3. 1..Len(v) = 1..8
    BY <1>2
  <1>3a. ASSUME NEW n \in Nat, 1..n = 1..8
         PROVE  n = 8
    <2>1. 8 \in 1..8 /\ 9 \notin 1..8
      OBVIOUS
    <2>2. 8 \in 1..n /\ 9 \notin 1..n
      BY <1>3a, <2>1
    <2>3. QED
      BY <2>2
  <1>4. Len(v) = 8
    BY <1>2, <1>3, <1>3a
  <1>5. QED
    BY <1>1, <1>4 DEF IsCode

LEMMA LowCode ==
  ASSUME NEW v \in Word8, NEW n \in 0..8
  PROVE  IsCode(Low(v, n), n)
  <1>1. v \in Seq(Byte) /\ Len(v) = 8
    BY WholeCode DEF IsCode
  <1>2. CASE n = 0
    BY <1>1, <1>2 DEF IsCode, Low
  <1>3. CASE n # 0
    <2>1. \A i \in 1..n : v[i] \in Byte
      BY DEF Word8
    <2>2. /\ SubSeq(v, 1, n) \in Seq(Byte)
          /\ Len(SubSeq(v, 1, n)) = IF 1 <= n THEN n - 1 + 1 ELSE 0
      BY <2>1, SubSeqProperties
    <2>3. QED
      BY <1>3, <2>2 DEF IsCode, Low
  <1>4. QED
    BY <1>2, <1>3

LEMMA BitType == ASSUME NEW c PROVE Bit(c) \in 0..1
  BY DEF Bit

LEMMA HalvesType ==
  ASSUME NEW r \in 0..15
  PROVE  /\ Hi(r) \in 0..1 /\ Lo(r) \in 0..7 /\ r = 8 * Hi(r) + Lo(r)
         /\ Hi(r) = 1 <=> r >= 8
  BY DEF Hi, Lo

LEMMA RexType ==
  ASSUME NEW w \in 0..1, NEW r \in 0..1, NEW x \in 0..1, NEW b \in 0..1
  PROVE  Rex(w, r, x, b) \in Byte
  BY DEF Rex, Byte

LEMMA ModRMType ==
  ASSUME NEW mod \in 0..3, NEW r \in 0..15, NEW m \in 0..15
  PROVE  ModRM(mod, r, m) \in Byte
  BY HalvesType DEF ModRM, Byte

LEMMA RexRegsType ==
  ASSUME NEW r \in 0..15, NEW m \in 0..15
  PROVE  RexW(r, m) \in Byte /\ RexB(r, m) \in Byte
  BY HalvesType, RexType DEF RexW, RexB

----------------------------------------------------------------------------
(* Operands.                                                               *)

(* The lowest byte that is not 0. *)
LEMMA FirstSetFacts ==
  ASSUME NEW v \in Word8, ~IsZero(v)
  PROVE  /\ FirstSet(v) \in 1..8 /\ v[FirstSet(v)] # 0
         /\ \A i \in 1..(FirstSet(v) - 1) : v[i] = 0
  <1>1. PICK m \in 1..8 : v[m] # 0
    BY DEF IsZero
  <1>2. \E k \in 1..8 : v[k] # 0 /\ \A i \in 1..(k - 1) : v[i] = 0
    <2>1. SUFFICES ASSUME \A k \in 1..8 : v[k] # 0 =>
                            \E i \in 1..(k - 1) : v[i] # 0
                   PROVE  FALSE
      OBVIOUS
    <2>2. v[1] = 0
      BY <2>1
    <2>3. v[2] = 0
      BY <2>1, <2>2
    <2>4. v[3] = 0
      BY <2>1, <2>2, <2>3
    <2>5. v[4] = 0
      BY <2>1, <2>2, <2>3, <2>4
    <2>6. v[5] = 0
      BY <2>1, <2>2, <2>3, <2>4, <2>5
    <2>7. v[6] = 0
      BY <2>1, <2>2, <2>3, <2>4, <2>5, <2>6
    <2>8. v[7] = 0
      BY <2>1, <2>2, <2>3, <2>4, <2>5, <2>6, <2>7
    <2>9. v[8] = 0
      BY <2>1, <2>2, <2>3, <2>4, <2>5, <2>6, <2>7, <2>8
    <2>10. QED
      BY <1>1, <2>2, <2>3, <2>4, <2>5, <2>6, <2>7, <2>8, <2>9
  <1>3. QED
    BY <1>2 DEF FirstSet

LEMMA NegType ==
  ASSUME NEW v \in Word8
  PROVE  Neg(v) \in Word8
  <1>1. CASE IsZero(v)
    BY <1>1 DEF Neg
  <1>2. CASE ~IsZero(v)
    <2> DEFINE k == FirstSet(v)
    <2>1. k \in 1..8 /\ v[k] # 0 /\ v[k] \in Byte
      BY <1>2, FirstSetFacts DEF Word8
    <2> HIDE DEF k
    <2>2. ASSUME NEW i \in 1..8
          PROVE  (IF i < k THEN 0 ELSE 255 - v[i] + Bit(i = k)) \in Byte
      <3>1. v[i] \in 0..255
        BY DEF Word8, Byte
      <3>2. QED
        BY <2>1, <3>1 DEF Byte, Bit
    <2>3. Neg(v) = [i \in 1..8 |-> IF i < k THEN 0 ELSE 255 - v[i] + Bit(i = k)]
      BY <1>2 DEF Neg, k
    <2>4. QED
      BY <2>2, <2>3 DEF Word8
  <1>3. QED
    BY <1>1, <1>2

LEMMA DispType ==
  ASSUME NEW o, o.v \in Word8
  PROVE  Disp(o) \in Word8
  BY NegType DEF Disp

LEMMA BelowFacts ==
  ASSUME NEW v \in Word8
  PROVE  /\ Below7(v) \in BOOLEAN /\ Below31(v) \in BOOLEAN
         /\ Below32(v) \in BOOLEAN /\ IsZero(v) \in BOOLEAN
         /\ IsZero(v) => Below7(v)
  BY DEF Word8, Byte, Below7, Below31, Below32, Below, IsZero

(* A byte for an offset of seven bits, four for a longer one, and none for *)
(* the offset 0 but from RBP and R13.                                      *)
LEMMA OfstSzType ==
  ASSUME NEW o, o.v \in Word8, o.r \in 0..15
  PROVE  /\ OfstSz(o) \in 0..4
         /\ IsZero(o.v) => OfstSz(o) = Bit(Lo(o.r) = 5)
         /\ ~IsZero(o.v) => OfstSz(o) = 1 + 3 * Bit(~Below7(o.v))
         /\ ~Below7(o.v) => OfstSz(o) = 4
  BY BelowFacts DEF OfstSz, Bit

LEMMA PlainCode ==
  ASSUME NEW r \in 0..15, NEW o, o.r \in 0..15
  PROVE  IsCode(Plain(r, o), 1 + Bit(Lo(o.r) \in {4, 5}))
  <1>1. 36 \in Byte /\ 0 \in Byte /\ 0 \in 0..3 /\ 1 \in 0..3
    BY DEF Byte
  <1>2a. ModRM(0, r, o.r) \in Byte /\ ModRM(1, r, o.r) \in Byte
    BY <1>1, ModRMType
  <1>2. CASE Lo(o.r) = 4
    BY <1>1, <1>2a, <1>2, TwoCode DEF Plain, Bit
  <1>3. CASE Lo(o.r) = 5
    BY <1>1, <1>2a, <1>3, TwoCode DEF Plain, Bit
  <1>4. CASE Lo(o.r) \notin {4, 5}
    BY <1>1, <1>2a, <1>4, OneCode DEF Plain, Bit
  <1>5. QED
    BY <1>2, <1>3, <1>4

LEMMA SibCode ==
  ASSUME NEW o, o.r \in 0..15
  PROVE  IsCode(Sib(o), Bit(Lo(o.r) = 4))
  <1>1. 36 \in Byte
    BY DEF Byte
  <1>2. QED
    BY <1>1, PrefixCode DEF Sib

LEMMA StoreCode ==
  ASSUME NEW r \in 0..15, NEW o, o.r \in 0..15, o.v \in Word8
  PROVE  IsCode(Store(r, o), 2 + 3 * Bit(~Below7(o.v)) + Bit(Lo(o.r) = 4))
  <1> DEFINE m == 1 + Bit(~Below7(o.v))
             n == IF Below7(o.v) THEN 1 ELSE 4
             s == Bit(Lo(o.r) = 4)
  <1>1. m \in 0..3 /\ n \in 0..8 /\ s \in Nat /\ n = 1 + 3 * Bit(~Below7(o.v))
    BY BelowFacts, BitType DEF Bit
  <1>2. IsCode(<<ModRM(m, r, o.r)>>, 1)
    BY <1>1, ModRMType, OneCode
  <1>3. IsCode(Low(Disp(o), n), n)
    BY <1>1, DispType, LowCode
  <1>4. IsCode(<<ModRM(m, r, o.r)>> \o Sib(o), 1 + s)
    BY <1>1, <1>2, SibCode, JoinCode
  <1>5. IsCode(<<ModRM(m, r, o.r)>> \o Sib(o) \o Low(Disp(o), n), 1 + s + n)
    BY <1>1, <1>3, <1>4, JoinCode
  <1>6. Store(r, o) = <<ModRM(m, r, o.r)>> \o Sib(o) \o Low(Disp(o), n)
    BY DEF Store
  <1>7. 1 + s + n = 2 + 3 * Bit(~Below7(o.v)) + Bit(Lo(o.r) = 4)
    <2>1. Bit(~Below7(o.v)) \in 0..1 /\ s \in 0..1
      BY BitType
    <2>2. QED
      BY <1>1, <2>1
  <1>8. QED
    BY <1>5, <1>6, <1>7

LEMMA LoadCode ==
  ASSUME junk \in Byte, NEW r \in 0..15, NEW o, o.r \in 0..15, o.v \in Word8
  PROVE  IsCode(Load(r, o), 1 + Bit(Lo(o.r) = 4) + OfstSz(o))
  <1> DEFINE m == Bit(OfstSz(o) > 0) + Bit(~Below7(o.v))
             s == Bit(Lo(o.r) = 4)
             d == IF IsZero(o.v) THEN Prefix(Lo(o.r) = 5, junk)
                  ELSE Low(Disp(o), OfstSz(o))
  <1>1. m \in 0..3 /\ s \in Nat /\ OfstSz(o) \in 0..4
    BY BelowFacts, BitType, OfstSzType DEF Bit
  <1>2. IsCode(<<ModRM(m, r, o.r)>>, 1)
    BY <1>1, ModRMType, OneCode
  <1>3. IsCode(d, OfstSz(o))
    <2>1. CASE IsZero(o.v)
      BY <2>1, OfstSzType, PrefixCode
    <2>2. CASE ~IsZero(o.v)
      BY <1>1, <2>2, DispType, LowCode
    <2>3. QED
      BY <2>1, <2>2
  <1>4. Load(r, o) = <<ModRM(m, r, o.r)>> \o Sib(o) \o d
    BY DEF Load
  <1> HIDE DEF d, m
  <1>5. IsCode(<<ModRM(m, r, o.r)>> \o Sib(o), 1 + s)
    BY <1>1, <1>2, SibCode, JoinCode
  <1>6. IsCode(<<ModRM(m, r, o.r)>> \o Sib(o) \o d, 1 + s + OfstSz(o))
    BY <1>1, <1>3, <1>5, JoinCode
  <1>7. QED
    BY <1>4, <1>6

LEMMA IndexedCode ==
  ASSUME NEW opcode \in Byte, NEW r \in 0..15, NEW o,
         o.r \in 0..15, o.x \in 0..15
  PROVE  IsCode(Indexed(opcode, r, o), 4 + Bit(Lo(o.r) = 5))
  <1> DEFINE m == Bit(Lo(o.r) = 5)
             head == <<RexW(r, o.r), opcode, ModRM(m, r, 4),
                       ModRM(Log2(o.f), o.x, o.r)>>
  <1>1. m \in 0..3 /\ m \in Nat /\ Log2(o.f) \in 0..3
    BY BitType DEF Log2, Bit
  <1>2. IsCode(head, 4)
    <2>1. RexW(r, o.r) \in Byte
      BY RexRegsType
    <2>2. ModRM(m, r, 4) \in Byte /\ ModRM(Log2(o.f), o.x, o.r) \in Byte
      BY <1>1, ModRMType
    <2>3. QED
      BY <2>1, <2>2, FourCode
  <1>3. IsCode(Prefix(Lo(o.r) = 5, 0), m)
    <2>1. 0 \in Byte
      BY DEF Byte
    <2>2. QED
      BY <2>1, PrefixCode
  <1>4. Indexed(opcode, r, o) = head \o Prefix(Lo(o.r) = 5, 0)
    BY DEF Indexed
  <1> HIDE DEF head
  <1>5. QED
    BY <1>1, <1>2, <1>3, <1>4, JoinCode

----------------------------------------------------------------------------
(* The instructions.                                                       *)

(* What an instruction of three pieces is made of. *)
LEMMA PrefixedCode ==
  ASSUME NEW c, NEW b \in Byte, NEW a \in Byte,
         NEW t, NEW n \in Nat, IsCode(t, n)
  PROVE  IsCode(Prefix(c, b) \o <<a>> \o t, Bit(c) + 1 + n)
  <1>1. Bit(c) \in Nat /\ 1 \in Nat /\ Bit(c) + 1 \in Nat
    BY BitType
  <1>2. IsCode(Prefix(c, b), Bit(c)) /\ IsCode(<<a>>, 1)
    BY PrefixCode, OneCode
  <1>3. IsCode(Prefix(c, b) \o <<a>>, Bit(c) + 1)
    BY <1>1, <1>2, JoinCode
  <1>4. QED
    BY <1>1, <1>3, JoinCode

LEMMA HeadedCode ==
  ASSUME NEW a \in Byte, NEW b \in Byte, NEW t, NEW n \in Nat, IsCode(t, n)
  PROVE  IsCode(<<a, b>> \o t, 2 + n)
  BY TwoCode, JoinCode

LEMMA OperandTypes ==
  /\ \A d \in G : d.k = "gpr" /\ d.r \in 0..15
  /\ \A d \in B : d.k = "gprb" /\ d.r \in 0..15
  /\ \A d \in A : d.k = "adr" /\ d.r \in 0..15
  /\ \A d \in X : d.k = "idx" /\ d.r \in 0..15 /\ d.x \in 0..15 /\ d.f \in {1, 2, 4, 8}
  /\ \A d \in I : d.k = "imm" /\ d.v \in Word8
  /\ \A v \in Values : v \in Word8
  <1>1. Regs \subseteq 0..15 /\ Values \subseteq Word8
    BY DomainsAssumption DEF Word8
  <1>2. QED
    BY <1>1 DEF G, B, A, X, I, Gpr, Gprb, Adr, Idx, Imm

LEMMA OffsetTypes ==
  ASSUME NEW K, NEW d \in O(K)
  PROVE  d.k \in K /\ d.r \in 0..15 /\ d.v \in Word8
  <1>1. Regs \subseteq 0..15 /\ Values \subseteq Word8
    BY DomainsAssumption DEF Word8
  <1>2. QED
    BY <1>1 DEF O, Ofst

LEMMA MovImmCode ==
  ASSUME NEW d, d.r \in 0..15, NEW v \in Word8
  PROVE  IsCode(MovImm(d, v), IF Below32(v) THEN 5 + Bit(d.r >= 8) ELSE 10)
  <1>1. /\ 65 \in Byte /\ 184 + Lo(d.r) \in Byte
        /\ Rex(1, 0, 0, Hi(d.r)) \in Byte
    BY HalvesType DEF Byte, Rex
  <1>2. CASE Below32(v)
    <2>1. IsCode(Low(v, 4), 4)
      BY LowCode
    <2>2. IsCode(Prefix(d.r >= 8, 65) \o <<184 + Lo(d.r)>> \o Low(v, 4),
                 Bit(d.r >= 8) + 1 + 4)
      BY <1>1, <2>1, PrefixedCode
    <2>3. Bit(d.r >= 8) + 1 + 4 = 5 + Bit(d.r >= 8)
      BY BitType
    <2>4. QED
      BY <1>2, <2>2, <2>3 DEF MovImm
  <1>3. CASE ~Below32(v)
    <2>1. IsCode(<<Rex(1, 0, 0, Hi(d.r)), 184 + Lo(d.r)>> \o v, 2 + 8)
      BY <1>1, WholeCode, HeadedCode
    <2>2. QED
      BY <1>3, <2>1 DEF MovImm
  <1>4. QED
    BY <1>2, <1>3

(* A static address takes eight bytes. *)
LEMMA MarkedFacts ==
  ASSUME NEW v \in Word8
  PROVE  Marked(v) \in Word8 /\ ~Below32(Marked(v))
  <1>1. v[8] \in 0..255
    BY DEF Word8, Byte
  <1>2. 128 + (v[8] % 128) \in Byte /\ 128 + (v[8] % 128) # 0
    BY <1>1 DEF Byte
  <1>3. Marked(v) \in Word8 /\ Marked(v)[8] # 0
    BY <1>2 DEF Marked, Word8
  <1>4. QED
    BY <1>3 DEF Below32, Below

LEMMA MovGprCode ==
  ASSUME junk \in Byte, NEW d \in G
  PROVE  /\ \A s \in G : IsCode(MovGpr(d, s), 3)
         /\ \A s \in A : IsCode(MovGpr(d, s), 3 + Bit(Lo(s.r) \in {4, 5}))
         /\ \A s \in O(AdrAdds) :
              IsCode(MovGpr(d, s), 3 + Bit(Lo(s.r) = 4) + OfstSz(s))
         /\ \A s \in X : IsCode(MovGpr(d, s), 4 + Bit(Lo(s.r) = 5))
         /\ \A s \in I : IsCode(MovGpr(d, s),
                                IF Below32(s.v) THEN 5 + Bit(d.r >= 8) ELSE 10)
         /\ \A v \in Values : IsCode(MovGpr(d, Static(v)), 10)
  <1>1. d.r \in 0..15
    BY OperandTypes
  <1>2. 137 \in Byte /\ 139 \in Byte /\ 3 \in 0..3
    BY DEF Byte
  <1>3. ASSUME NEW s \in G PROVE IsCode(MovGpr(d, s), 3)
    <2>1. s.k = "gpr" /\ s.r \in 0..15
      BY OperandTypes
    <2>2. IsCode(<<RexW(s.r, d.r), 137, ModRM(3, s.r, d.r)>>, 3)
      BY <1>1, <1>2, <2>1, RexRegsType, ModRMType, ThreeCode
    <2>3. QED
      BY <2>1, <2>2 DEF MovGpr, AdrAdds
  <1>4. ASSUME NEW s \in A
        PROVE  IsCode(MovGpr(d, s), 3 + Bit(Lo(s.r) \in {4, 5}))
    <2>1. s.k = "adr" /\ s.r \in 0..15
      BY OperandTypes
    <2> DEFINE n == 1 + Bit(Lo(s.r) \in {4, 5})
    <2>2. n \in Nat /\ 2 + n = 3 + Bit(Lo(s.r) \in {4, 5})
      BY BitType
    <2>3. IsCode(Plain(d.r, s), n)
      BY <1>1, <2>1, PlainCode
    <2> HIDE DEF n
    <2>4. IsCode(<<RexW(d.r, s.r), 139>> \o Plain(d.r, s), 2 + n)
      BY <1>1, <1>2, <2>1, <2>2, <2>3, RexRegsType, HeadedCode
    <2>5. QED
      BY <2>1, <2>2, <2>4 DEF MovGpr, AdrAdds
  <1>5. ASSUME NEW s \in O(AdrAdds)
        PROVE  IsCode(MovGpr(d, s), 3 + Bit(Lo(s.r) = 4) + OfstSz(s))
    <2>1. s.k \in AdrAdds /\ s.r \in 0..15 /\ s.v \in Word8
      BY OffsetTypes
    <2> DEFINE n == 1 + Bit(Lo(s.r) = 4) + OfstSz(s)
    <2>2. n \in Nat /\ 2 + n = 3 + Bit(Lo(s.r) = 4) + OfstSz(s)
      BY <2>1, BitType, OfstSzType
    <2>3. IsCode(Load(d.r, s), n)
      BY <1>1, <2>1, LoadCode
    <2> HIDE DEF n
    <2>4. IsCode(<<RexW(d.r, s.r), 139>> \o Load(d.r, s), 2 + n)
      BY <1>1, <1>2, <2>1, <2>2, <2>3, RexRegsType, HeadedCode
    <2>5. QED
      BY <2>1, <2>2, <2>4 DEF MovGpr, AdrAdds
  <1>6. ASSUME NEW s \in X PROVE IsCode(MovGpr(d, s), 4 + Bit(Lo(s.r) = 5))
    <2>1. s.k = "idx" /\ s.r \in 0..15 /\ s.x \in 0..15
      BY OperandTypes
    <2>2. MovGpr(d, s) = Indexed(139, d.r, s)
      BY <2>1 DEF MovGpr, AdrAdds
    <2>3. QED
      BY <1>1, <1>2, <2>1, <2>2, IndexedCode
  <1>7. ASSUME NEW s \in I
        PROVE  IsCode(MovGpr(d, s), IF Below32(s.v) THEN 5 + Bit(d.r >= 8) ELSE 10)
    <2>1. s.k = "imm" /\ s.v \in Word8
      BY OperandTypes
    <2>2. MovGpr(d, s) = MovImm(d, s.v)
      BY <2>1 DEF MovGpr, AdrAdds
    <2>3. QED
      BY <1>1, <2>1, <2>2, MovImmCode
  <1>8. ASSUME NEW v \in Values PROVE IsCode(MovGpr(d, Static(v)), 10)
    <2>1. v \in Word8
      BY OperandTypes
    <2>2. MovGpr(d, Static(v)) = MovImm(d, Marked(v))
      BY DEF MovGpr, AdrAdds, Static
    <2>3. QED
      BY <1>1, <2>1, <2>2, MarkedFacts, MovImmCode
  <1>9. QED
    BY <1>3, <1>4, <1>5, <1>6, <1>7, <1>8

LEMMA MovGprbCode ==
  ASSUME junk \in Byte, NEW d \in B
  PROVE  /\ \A s \in A :
              IsCode(MovGprb(d, s),
                     2 + Bit(d.r >= 4 \/ s.r >= 8) + Bit(Lo(s.r) \in {4, 5}))
         /\ \A s \in O(AdrAdds) :
              IsCode(MovGprb(d, s),
                     2 + Bit(d.r >= 4 \/ s.r >= 4) + Bit(Lo(s.r) = 4) + OfstSz(s))
         /\ \A s \in I : IsCode(MovGprb(d, s), 2 + Bit(d.r >= 4))
  <1>1. d.r \in 0..15 /\ 138 \in Byte
    BY OperandTypes DEF Byte
  <1>2. ASSUME NEW s \in A
        PROVE  IsCode(MovGprb(d, s),
                      2 + Bit(d.r >= 4 \/ s.r >= 8) + Bit(Lo(s.r) \in {4, 5}))
    <2>1. s.k = "adr" /\ s.r \in 0..15
      BY OperandTypes
    <2> DEFINE n == 1 + Bit(Lo(s.r) \in {4, 5})
               c == d.r >= 4 \/ s.r >= 8
    <2>2. n \in Nat /\ Bit(c) + 1 + n = 2 + Bit(c) + Bit(Lo(s.r) \in {4, 5})
      BY BitType
    <2>3. IsCode(Plain(d.r, s), n)
      BY <1>1, <2>1, PlainCode
    <2>4. RexB(d.r, s.r) \in Byte
      BY <1>1, <2>1, RexRegsType
    <2> HIDE DEF n
    <2>5. IsCode(Prefix(c, RexB(d.r, s.r)) \o <<138>> \o Plain(d.r, s), Bit(c) + 1 + n)
      BY <1>1, <2>2, <2>3, <2>4, PrefixedCode
    <2>6. QED
      BY <2>1, <2>2, <2>5 DEF MovGprb, AdrAdds
  <1>3. ASSUME NEW s \in O(AdrAdds)
        PROVE  IsCode(MovGprb(d, s),
                      2 + Bit(d.r >= 4 \/ s.r >= 4) + Bit(Lo(s.r) = 4) + OfstSz(s))
    <2>1. s.k \in AdrAdds /\ s.r \in 0..15 /\ s.v \in Word8
      BY OffsetTypes
    <2> DEFINE n == 1 + Bit(Lo(s.r) = 4) + OfstSz(s)
               c == d.r >= 4 \/ s.r >= 4
    <2>2. n \in Nat /\ Bit(c) + 1 + n = 2 + Bit(c) + Bit(Lo(s.r) = 4) + OfstSz(s)
      BY <2>1, BitType, OfstSzType
    <2>3. IsCode(Load(d.r, s), n)
      BY <1>1, <2>1, LoadCode
    <2>4. RexB(d.r, s.r) \in Byte
      BY <1>1, <2>1, RexRegsType
    <2> HIDE DEF n
    <2>5. IsCode(Prefix(c, RexB(d.r, s.r)) \o <<138>> \o Load(d.r, s), Bit(c) + 1 + n)
      BY <1>1, <2>2, <2>3, <2>4, PrefixedCode
    <2>6. QED
      BY <2>1, <2>2, <2>5 DEF MovGprb, AdrAdds
  <1>4. ASSUME NEW s \in I PROVE IsCode(MovGprb(d, s), 2 + Bit(d.r >= 4))
    <2>1. s.k = "imm" /\ s.v[1] \in Byte
      BY OperandTypes DEF Word8
    <2>2. 176 + Lo(d.r) \in Byte /\ Rex(0, 0, 0, Hi(d.r)) \in Byte
      BY <1>1, HalvesType DEF Byte, Rex
    <2>3. IsCode(<<176 + Lo(d.r), s.v[1]>>, 2)
      BY <2>1, <2>2, TwoCode
    <2>4. IsCode(Prefix(d.r >= 4, Rex(0, 0, 0, Hi(d.r))), Bit(d.r >= 4))
      BY <2>2, PrefixCode
    <2>5. Bit(d.r >= 4) \in Nat /\ Bit(d.r >= 4) + 2 = 2 + Bit(d.r >= 4)
      BY BitType
    <2>6. IsCode(Prefix(d.r >= 4, Rex(0, 0, 0, Hi(d.r))) \o <<176 + Lo(d.r), s.v[1]>>,
                 Bit(d.r >= 4) + 2)
      BY <2>3, <2>4, <2>5, JoinCode
    <2>7. QED
      BY <2>1, <2>5, <2>6 DEF MovGprb, AdrAdds
  <1>5. QED
    BY <1>2, <1>3, <1>4

LEMMA MovAdrCode ==
  ASSUME NEW d \in A
  PROVE  /\ \A s \in G : IsCode(MovAdr(d, s), 3 + Bit(Lo(d.r) \in {4, 5}))
         /\ \A s \in B :
              IsCode(MovAdr(d, s),
                     2 + Bit(Lo(d.r) \in {4, 5}) + Bit(s.r >= 4 \/ d.r >= 8))
  <1>1. d.r \in 0..15 /\ 136 \in Byte /\ 137 \in Byte
    BY OperandTypes DEF Byte
  <1> DEFINE n == 1 + Bit(Lo(d.r) \in {4, 5})
  <1>2. n \in Nat /\ n = 1 + Bit(Lo(d.r) \in {4, 5}) /\ Bit(Lo(d.r) \in {4, 5}) \in Nat
    BY BitType
  <1>3. ASSUME NEW s \in G \cup B
        PROVE  /\ s.r \in 0..15 /\ IsCode(Plain(s.r, d), n)
               /\ RexW(s.r, d.r) \in Byte /\ RexB(s.r, d.r) \in Byte
    <2>1. s.r \in 0..15
      BY OperandTypes
    <2>2. QED
      BY <1>1, <2>1, PlainCode, RexRegsType
  <1> HIDE DEF n
  <1>4. ASSUME NEW s \in G
        PROVE  IsCode(MovAdr(d, s), 3 + Bit(Lo(d.r) \in {4, 5}))
    <2>1. s.k = "gpr"
      BY OperandTypes
    <2>2. IsCode(<<RexW(s.r, d.r), 137>> \o Plain(s.r, d), 2 + n)
      BY <1>1, <1>2, <1>3, HeadedCode
    <2>3. 2 + n = 3 + Bit(Lo(d.r) \in {4, 5})
      BY <1>2
    <2>4. QED
      BY <2>1, <2>2, <2>3 DEF MovAdr
  <1>5. ASSUME NEW s \in B
        PROVE  IsCode(MovAdr(d, s),
                      2 + Bit(Lo(d.r) \in {4, 5}) + Bit(s.r >= 4 \/ d.r >= 8))
    <2> DEFINE c == s.r >= 4 \/ d.r >= 8
    <2>1. s.k = "gprb"
      BY OperandTypes
    <2>2. IsCode(Prefix(c, RexB(s.r, d.r)) \o <<136>> \o Plain(s.r, d), Bit(c) + 1 + n)
      BY <1>1, <1>2, <1>3, PrefixedCode
    <2>3. Bit(c) + 1 + n = 2 + Bit(Lo(d.r) \in {4, 5}) + Bit(c)
      BY <1>2, BitType
    <2>4. QED
      BY <2>1, <2>2, <2>3 DEF MovAdr
  <1>6. QED
    BY <1>4, <1>5

(* The bytes of an operand in memory that is written to. *)
StoreSz(o) == 2 + 3 * Bit(~Below7(o.v)) + Bit(Lo(o.r) = 4)

LEMMA StoreSzType == ASSUME NEW o PROVE StoreSz(o) \in 2..6
  <1>1. Bit(~Below7(o.v)) \in 0..1 /\ Bit(Lo(o.r) = 4) \in 0..1
    BY BitType
  <1>2. QED
    BY <1>1 DEF StoreSz

LEMMA MovAdrAddCode ==
  ASSUME NEW d \in O(AdrAdds \cup Adr64Adds)
  PROVE  /\ \A s \in G : IsCode(MovAdrAdd(d, s), 2 + StoreSz(d))
         /\ \A s \in B :
              IsCode(MovAdrAdd(d, s), 1 + StoreSz(d) + Bit(s.r >= 4 \/ d.r >= 8))
         /\ \A s \in I : IsCode(MovAdrAdd(d, s), 6 + StoreSz(d))
  <1>1. d.r \in 0..15 /\ d.v \in Word8 /\ {136, 137, 199} \subseteq Byte
    BY OffsetTypes DEF Byte
  <1>2. StoreSz(d) \in Nat
    BY StoreSzType
  <1>3. ASSUME NEW r \in 0..15
        PROVE  IsCode(Store(r, d), StoreSz(d))
    BY <1>1, StoreCode DEF StoreSz
  <1>4. ASSUME NEW s \in G PROVE IsCode(MovAdrAdd(d, s), 2 + StoreSz(d))
    <2>1. s.k = "gpr" /\ s.r \in 0..15
      BY OperandTypes
    <2>2. RexW(s.r, d.r) \in Byte
      BY <1>1, <2>1, RexRegsType
    <2>3. IsCode(<<RexW(s.r, d.r), 137>> \o Store(s.r, d), 2 + StoreSz(d))
      BY <1>1, <1>2, <1>3, <2>1, <2>2, HeadedCode
    <2>4. QED
      BY <2>1, <2>3 DEF MovAdrAdd
  <1>5. ASSUME NEW s \in B
        PROVE  IsCode(MovAdrAdd(d, s), 1 + StoreSz(d) + Bit(s.r >= 4 \/ d.r >= 8))
    <2> DEFINE c == s.r >= 4 \/ d.r >= 8
    <2>1. s.k = "gprb" /\ s.r \in 0..15
      BY OperandTypes
    <2>2. RexB(s.r, d.r) \in Byte
      BY <1>1, <2>1, RexRegsType
    <2>3. IsCode(Prefix(c, RexB(s.r, d.r)) \o <<136>> \o Store(s.r, d),
                 Bit(c) + 1 + StoreSz(d))
      BY <1>1, <1>2, <1>3, <2>1, <2>2, PrefixedCode
    <2>4. Bit(c) + 1 + StoreSz(d) = 1 + StoreSz(d) + Bit(c)
      BY <1>2, BitType
    <2>5. QED
      BY <2>1, <2>3, <2>4 DEF MovAdrAdd
  <1>6. ASSUME NEW s \in I PROVE IsCode(MovAdrAdd(d, s), 6 + StoreSz(d))
    <2>1. s.k = "imm" /\ s.v \in Word8
      BY OperandTypes
    <2>2. Rex(1, 0, 0, Hi(d.r)) \in Byte
      BY <1>1, HalvesType DEF Byte, Rex
    <2>3. IsCode(Store(0, d), StoreSz(d))
      BY <1>3
    <2>4. IsCode(<<Rex(1, 0, 0, Hi(d.r)), 199>> \o Store(0, d), 2 + StoreSz(d))
      BY <1>1, <1>2, <2>2, <2>3, HeadedCode
    <2>5. IsCode(Low(s.v, 4), 4)
      BY <2>1, LowCode
    <2>6. IsCode(<<Rex(1, 0, 0, Hi(d.r)), 199>> \o Store(0, d) \o Low(s.v, 4),
                 2 + StoreSz(d) + 4)
      BY <1>2, <2>4, <2>5, JoinCode
    <2>7. 2 + StoreSz(d) + 4 = 6 + StoreSz(d)
      BY <1>2
    <2>8. QED
      BY <2>1, <2>6, <2>7 DEF MovAdrAdd
  <1>7. QED
    BY <1>4, <1>5, <1>6

LEMMA LeaCode ==
  ASSUME junk \in Byte, NEW d \in G
  PROVE  /\ \A s \in O(AdrAdds) :
              IsCode(Lea(d, s), 3 + Bit(Lo(s.r) = 4) + OfstSz(s))
         /\ \A s \in X : IsCode(Lea(d, s), 4 + Bit(Lo(s.r) = 5))
  <1>1. d.r \in 0..15 /\ 141 \in Byte
    BY OperandTypes DEF Byte
  <1>2. ASSUME NEW s \in O(AdrAdds)
        PROVE  IsCode(Lea(d, s), 3 + Bit(Lo(s.r) = 4) + OfstSz(s))
    <2>1. s.k \in AdrAdds /\ s.r \in 0..15 /\ s.v \in Word8
      BY OffsetTypes
    <2> DEFINE n == 1 + Bit(Lo(s.r) = 4) + OfstSz(s)
    <2>2. n \in Nat /\ 2 + n = 3 + Bit(Lo(s.r) = 4) + OfstSz(s)
      BY <2>1, BitType, OfstSzType
    <2>3. IsCode(Load(d.r, s), n)
      BY <1>1, <2>1, LoadCode
    <2> HIDE DEF n
    <2>4. IsCode(<<RexW(d.r, s.r), 141>> \o Load(d.r, s), 2 + n)
      BY <1>1, <2>1, <2>2, <2>3, RexRegsType, HeadedCode
    <2>5. QED
      BY <2>1, <2>2, <2>4 DEF Lea, AdrAdds
  <1>3. ASSUME NEW s \in X PROVE IsCode(Lea(d, s), 4 + Bit(Lo(s.r) = 5))
    <2>1. s.k = "idx" /\ s.r \in 0..15 /\ s.x \in 0..15
      BY OperandTypes
    <2>2. QED
      BY <1>1, <2>1, IndexedCode DEF Lea
  <1>4. QED
    BY <1>2, <1>3

AluOps == {"ADD", "OR", "AND", "SUB", "XOR", "CMP"}
ShiftOps == {"ROL", "ROR", "SHL", "SHR", "SAR"}
SetOps == {"SETS", "SETNS", "SETZ", "SETNZ", "SETB", "SETBE", "SETA", "SETAE",
           "SETL", "SETLE", "SETG", "SETGE"}
FixedOps == {"SYSCALL", "RET", "CQO", "NOP"}

LEMMA Tables ==
  /\ DOMAIN Digit = AluOps /\ \A op \in AluOps : Digit[op] \in 0..7
  /\ DOMAIN ShiftDigit = ShiftOps /\ \A op \in ShiftOps : ShiftDigit[op] \in 0..7
  /\ DOMAIN Condition = SetOps /\ \A op \in SetOps : Condition[op] \in 0..15
  /\ DOMAIN Fixed = FixedOps
  BY DEF Digit, AluOps, ShiftDigit, ShiftOps, Condition, SetOps, Fixed, FixedOps

LEMMA AluGprCode ==
  ASSUME NEW op \in AluOps, NEW d \in G
  PROVE  /\ \A s \in G :
              IsCode(AluGpr(op, d, s), 2 + Bit(op # "XOR" \/ d.r # s.r \/ d.r >= 8))
         /\ \A s \in I :
              IsCode(AluGpr(op, d, s),
                     IF Below7(s.v) THEN 4 ELSE 7 - Bit(d.r = 0))
  <1>1. /\ d.r \in 0..15 /\ {129, 131} \subseteq Byte /\ 3 \in 0..3
        /\ Digit[op] \in 0..7 /\ Digit[op] \in 0..15
    BY OperandTypes, Tables DEF Byte
  <1>2. /\ 1 + 8 * Digit[op] \in Byte /\ 5 + 8 * Digit[op] \in Byte
        /\ Rex(1, 0, 0, Hi(d.r)) \in Byte /\ Rex(1, 0, 0, 0) \in Byte
    BY <1>1, HalvesType DEF Byte, Rex
  <1>3. ASSUME NEW s \in G
        PROVE  IsCode(AluGpr(op, d, s), 2 + Bit(op # "XOR" \/ d.r # s.r \/ d.r >= 8))
    <2> DEFINE c == op # "XOR" \/ d.r # s.r \/ d.r >= 8
    <2>1. s.k = "gpr" /\ s.r \in 0..15
      BY OperandTypes
    <2>2. RexW(s.r, d.r) \in Byte /\ ModRM(3, s.r, d.r) \in Byte
      BY <1>1, <2>1, RexRegsType, ModRMType
    <2>3. IsCode(<<1 + 8 * Digit[op], ModRM(3, s.r, d.r)>>, 2)
      BY <1>2, <2>2, TwoCode
    <2>4. IsCode(Prefix(c, RexW(s.r, d.r)), Bit(c))
      BY <2>2, PrefixCode
    <2>5. Bit(c) \in Nat /\ Bit(c) + 2 = 2 + Bit(c)
      BY BitType
    <2>6. IsCode(Prefix(c, RexW(s.r, d.r)) \o <<1 + 8 * Digit[op], ModRM(3, s.r, d.r)>>,
                 Bit(c) + 2)
      BY <2>3, <2>4, <2>5, JoinCode
    <2>7. QED
      BY <2>1, <2>5, <2>6 DEF AluGpr
  <1>4. ASSUME NEW s \in I
        PROVE  IsCode(AluGpr(op, d, s), IF Below7(s.v) THEN 4 ELSE 7 - Bit(d.r = 0))
    <2>1. s.k = "imm" /\ s.v \in Word8 /\ s.v[1] \in Byte
      BY OperandTypes DEF Word8
    <2>2. ModRM(3, Digit[op], d.r) \in Byte
      BY <1>1, ModRMType
    <2>3. IsCode(Low(s.v, 4), 4)
      BY <2>1, LowCode
    <2>4. CASE Below7(s.v)
      <3>1. IsCode(<<Rex(1, 0, 0, Hi(d.r)), 131, ModRM(3, Digit[op], d.r), s.v[1]>>, 4)
        BY <1>1, <1>2, <2>1, <2>2, FourCode
      <3>2. QED
        BY <2>1, <2>4, <3>1 DEF AluGpr
    <2>5. CASE ~Below7(s.v) /\ d.r = 0
      <3>1. IsCode(<<Rex(1, 0, 0, 0), 5 + 8 * Digit[op]>> \o Low(s.v, 4), 2 + 4)
        BY <1>2, <2>3, HeadedCode
      <3>2. QED
        BY <2>1, <2>5, <3>1 DEF AluGpr, Bit
    <2>6. CASE ~Below7(s.v) /\ d.r # 0
      <3>1. IsCode(<<Rex(1, 0, 0, Hi(d.r)), 129, ModRM(3, Digit[op], d.r)>>, 3)
        BY <1>1, <1>2, <2>2, ThreeCode
      <3>2. IsCode(<<Rex(1, 0, 0, Hi(d.r)), 129, ModRM(3, Digit[op], d.r)>>
                     \o Low(s.v, 4), 3 + 4)
        BY <2>3, <3>1, JoinCode
      <3>3. QED
        BY <2>1, <2>6, <3>2 DEF AluGpr, Bit
    <2>7. QED
      BY <2>4, <2>5, <2>6
  <1>5. QED
    BY <1>3, <1>4

LEMMA AluGprbCode ==
  ASSUME NEW op \in AluOps, NEW d \in B
  PROVE  /\ \A s \in B : IsCode(AluGprb(op, d, s), 2 + Bit(d.r >= 4 \/ s.r >= 4))
         /\ \A s \in I :
              IsCode(AluGprb(op, d, s), IF d.r = 0 THEN 2 ELSE 3 + Bit(d.r >= 4))
  <1>1. /\ d.k = "gprb" /\ d.r \in 0..15 /\ 128 \in Byte /\ 3 \in 0..3
        /\ Digit[op] \in 0..7
    BY OperandTypes, Tables DEF Byte
  <1>2. /\ 8 * Digit[op] \in Byte /\ 4 + 8 * Digit[op] \in Byte
        /\ 64 + Hi(d.r) \in Byte
        /\ (4 + 8 * Digit[op] + 192 + Lo(d.r)) % 256 \in Byte
    BY <1>1, HalvesType DEF Byte
  <1>3. ASSUME NEW s \in B
        PROVE  IsCode(AluGprb(op, d, s), 2 + Bit(d.r >= 4 \/ s.r >= 4))
    <2> DEFINE c == d.r >= 4 \/ s.r >= 4
    <2>1. s.k = "gprb" /\ s.r \in 0..15
      BY OperandTypes
    <2>2. RexB(s.r, d.r) \in Byte /\ ModRM(3, s.r, d.r) \in Byte
      BY <1>1, <2>1, RexRegsType, ModRMType
    <2>3. IsCode(<<8 * Digit[op], ModRM(3, s.r, d.r)>>, 2)
      BY <1>2, <2>2, TwoCode
    <2>4. IsCode(Prefix(c, RexB(s.r, d.r)), Bit(c))
      BY <2>2, PrefixCode
    <2>5. Bit(c) \in Nat /\ Bit(c) + 2 = 2 + Bit(c)
      BY BitType
    <2>6. IsCode(Prefix(c, RexB(s.r, d.r)) \o <<8 * Digit[op], ModRM(3, s.r, d.r)>>,
                 Bit(c) + 2)
      BY <2>3, <2>4, <2>5, JoinCode
    <2>7. QED
      BY <2>1, <2>5, <2>6 DEF AluGprb
  <1>4. ASSUME NEW s \in I
        PROVE  IsCode(AluGprb(op, d, s), IF d.r = 0 THEN 2 ELSE 3 + Bit(d.r >= 4))
    <2> DEFINE m == (4 + 8 * Digit[op] + 192 + Lo(d.r)) % 256
               c == d.r >= 4
    <2>1. s.k = "imm" /\ s.v[1] \in Byte
      BY OperandTypes DEF Word8
    <2>2. CASE d.r = 0
      <3>1. IsCode(<<4 + 8 * Digit[op], s.v[1]>>, 2)
        BY <1>2, <2>1, TwoCode
      <3>2. QED
        BY <2>1, <2>2, <3>1 DEF AluGprb
    <2>3. CASE d.r # 0
      <3>1. IsCode(<<128, m, s.v[1]>>, 3)
        BY <1>1, <1>2, <2>1, ThreeCode
      <3>2. IsCode(Prefix(c, 64 + Hi(d.r)), Bit(c))
        BY <1>2, PrefixCode
      <3>3. Bit(c) \in Nat /\ Bit(c) + 3 = 3 + Bit(c)
        BY BitType
      <3>4. IsCode(Prefix(c, 64 + Hi(d.r)) \o <<128, m, s.v[1]>>, Bit(c) + 3)
        BY <3>1, <3>2, <3>3, JoinCode
      <3>5. QED
        BY <2>1, <2>3, <3>3, <3>4 DEF AluGprb
    <2>4. QED
      BY <2>2, <2>3
  <1>5. QED
    BY <1>3, <1>4

LEMMA AluAdrAddCode ==
  ASSUME NEW op \in AluOps, NEW d \in O(AdrAdds), NEW s \in G
  PROVE  IsCode(AluAdrAdd(op, d, s), 2 + StoreSz(d))
  <1>1. d.r \in 0..15 /\ d.v \in Word8 /\ s.r \in 0..15 /\ Digit[op] \in 0..7
    BY OffsetTypes, OperandTypes, Tables
  <1>2. Rex(1, 0, 0, Hi(d.r)) \in Byte /\ 1 + 8 * Digit[op] \in Byte
    BY <1>1, HalvesType DEF Byte, Rex
  <1>3. IsCode(Store(s.r, d), StoreSz(d)) /\ StoreSz(d) \in Nat
    BY <1>1, StoreCode, StoreSzType DEF StoreSz
  <1>4. QED
    BY <1>2, <1>3, HeadedCode DEF AluAdrAdd

LEMMA RegCode ==
  ASSUME NEW a \in Byte, NEW n \in 0..15, NEW r \in 0..15
  PROVE  IsCode(<<Rex(1, 0, 0, Hi(r)), a, ModRM(3, n, r)>>, 3)
  <1>1. 3 \in 0..3 /\ Rex(1, 0, 0, Hi(r)) \in Byte
    BY HalvesType DEF Byte, Rex
  <1>2. ModRM(3, n, r) \in Byte
    BY <1>1, ModRMType
  <1>3. QED
    BY <1>1, <1>2, ThreeCode

LEMMA UnaryCode ==
  ASSUME NEW op \in UnaryOps, NEW d \in G
  PROVE  IsCode(Unary(op, d), 3)
  <1> DEFINE a == IF op \in {"INC", "DEC"} THEN 255 ELSE 247
             n == [INC |-> 0, DEC |-> 1, NOT |-> 2, NEG |-> 3][op]
  <1>1. a \in Byte /\ n \in 0..15 /\ d.r \in 0..15
    BY OperandTypes DEF Byte, UnaryOps
  <1>2. Unary(op, d) = <<Rex(1, 0, 0, Hi(d.r)), a, ModRM(3, n, d.r)>>
    BY DEF Unary
  <1> HIDE DEF a, n
  <1>3. QED
    BY <1>1, <1>2, RegCode

LEMMA MulDivCode ==
  ASSUME NEW op \in MulOps, NEW d \in G
  PROVE  IsCode(MulDiv(op, d), 3)
  <1> DEFINE a == 247
             n == [MUL |-> 4, DIV |-> 6, IDIV |-> 7][op]
  <1>1. a \in Byte /\ n \in 0..15 /\ d.r \in 0..15
    BY OperandTypes DEF Byte, MulOps
  <1>2. MulDiv(op, d) = <<Rex(1, 0, 0, Hi(d.r)), a, ModRM(3, n, d.r)>>
    BY DEF MulDiv
  <1> HIDE DEF a, n
  <1>3. QED
    BY <1>1, <1>2, RegCode

LEMMA ShiftCode ==
  ASSUME NEW op \in ShiftOps, NEW d \in G
  PROVE  /\ IsCode(Shift(op, d, Gprb(1)), 3)
         /\ \A s \in I : IsCode(Shift(op, d, s), IF s.v[1] = 1 THEN 3 ELSE 4)
  <1> DEFINE n == ShiftDigit[op]
             head(a) == <<Rex(1, 0, 0, Hi(d.r)), a, ModRM(3, n, d.r)>>
  <1>1. n \in 0..15 /\ d.r \in 0..15
    BY OperandTypes, Tables
  <1>2. \A a \in Byte : IsCode(head(a), 3)
    BY <1>1, RegCode
  <1>3. 211 \in Byte /\ 209 \in Byte /\ 193 \in Byte
    BY DEF Byte
  <1>4. IsCode(Shift(op, d, Gprb(1)), 3)
    <2>1. Shift(op, d, Gprb(1)) = head(211)
      BY DEF Shift, Gprb
    <2>2. QED
      BY <1>2, <1>3, <2>1
  <1>5. ASSUME NEW s \in I
        PROVE  IsCode(Shift(op, d, s), IF s.v[1] = 1 THEN 3 ELSE 4)
    <2>1. s.k = "imm" /\ s.v[1] \in Byte
      BY OperandTypes DEF Word8
    <2>2. CASE s.v[1] = 1
      <3>1. Shift(op, d, s) = head(209)
        BY <2>1, <2>2 DEF Shift
      <3>2. QED
        BY <1>2, <1>3, <2>2, <3>1
    <2>3. CASE s.v[1] # 1
      <3>1. Shift(op, d, s) = Append(head(193), s.v[1])
        BY <2>1, <2>3 DEF Shift
      <3>2. IsCode(head(193), 3)
        BY <1>2, <1>3
      <3>3. IsCode(Append(head(193), s.v[1]), 3 + 1)
        BY <2>1, <3>2, AppendCode
      <3>4. QED
        BY <2>3, <3>1, <3>3
    <2>4. QED
      BY <2>2, <2>3
  <1>6. QED
    BY <1>4, <1>5

LEMMA TestCode ==
  /\ \A d, s \in G : IsCode(Test(d, s), 3)
  /\ \A d, s \in B : IsCode(Test(d, s), 2 + Bit(d.r >= 4 \/ s.r >= 4))
  <1>1. 132 \in Byte /\ 133 \in Byte /\ 3 \in 0..3
    BY DEF Byte
  <1>2. ASSUME NEW d \in G, NEW s \in G PROVE IsCode(Test(d, s), 3)
    <2>1. d.k = "gpr" /\ d.r \in 0..15 /\ s.r \in 0..15
      BY OperandTypes
    <2>2. RexW(s.r, d.r) \in Byte /\ ModRM(3, s.r, d.r) \in Byte
      BY <1>1, <2>1, RexRegsType, ModRMType
    <2>3. QED
      BY <1>1, <2>1, <2>2, ThreeCode DEF Test
  <1>3. ASSUME NEW d \in B, NEW s \in B
        PROVE  IsCode(Test(d, s), 2 + Bit(d.r >= 4 \/ s.r >= 4))
    <2> DEFINE c == d.r >= 4 \/ s.r >= 4
    <2>1. d.k = "gprb" /\ d.r \in 0..15 /\ s.r \in 0..15
      BY OperandTypes
    <2>2. RexB(s.r, d.r) \in Byte /\ ModRM(3, s.r, d.r) \in Byte
      BY <1>1, <2>1, RexRegsType, ModRMType
    <2>3. IsCode(<<132, ModRM(3, s.r, d.r)>>, 2)
      BY <1>1, <2>2, TwoCode
    <2>4. IsCode(Prefix(c, RexB(s.r, d.r)), Bit(c))
      BY <2>2, PrefixCode
    <2>5. Bit(c) \in Nat /\ Bit(c) + 2 = 2 + Bit(c)
      BY BitType
    <2>6. IsCode(Prefix(c, RexB(s.r, d.r)) \o <<132, ModRM(3, s.r, d.r)>>, Bit(c) + 2)
      BY <2>3, <2>4, <2>5, JoinCode
    <2>7. QED
      BY <2>1, <2>5, <2>6 DEF Test
  <1>4. QED
    BY <1>2, <1>3

LEMMA WideCode ==
  ASSUME NEW d \in G, NEW s \in G \cup B
  PROVE  IsCode(Imul(d, s), 4) /\ IsCode(Movzx(d, s), 4)
  <1>1. d.r \in 0..15 /\ s.r \in 0..15 /\ {15, 175, 182} \subseteq Byte /\ 3 \in 0..3
    BY OperandTypes DEF Byte
  <1>2. RexW(d.r, s.r) \in Byte /\ ModRM(3, d.r, s.r) \in Byte
    BY <1>1, RexRegsType, ModRMType
  <1>3. QED
    BY <1>1, <1>2, FourCode DEF Imul, Movzx

LEMMA PushPopCode ==
  ASSUME NEW op
  PROVE  /\ \A d \in G : IsCode(PushPop(op, d), 1 + Bit(d.r >= 8))
         /\ \A d \in I : IsCode(PushPop(op, d), 2 + 3 * Bit(~Below7(d.v)))
  <1>1. 65 \in Byte /\ 104 \in Byte /\ 106 \in Byte
    BY DEF Byte
  <1>2. ASSUME NEW d \in G PROVE IsCode(PushPop(op, d), 1 + Bit(d.r >= 8))
    <2>1. d.k = "gpr" /\ d.r \in 0..15
      BY OperandTypes
    <2>2. Bit(op = "POP") \in 0..1 /\ Lo(d.r) \in 0..7
      BY <2>1, BitType, HalvesType
    <2>3. 80 + 8 * Bit(op = "POP") + Lo(d.r) \in Byte
      BY <2>2 DEF Byte
    <2>4. Bit(d.r >= 8) \in Nat /\ Bit(d.r >= 8) + 1 = 1 + Bit(d.r >= 8)
      BY BitType
    <2>5. PushPop(op, d) = Prefix(d.r >= 8, 65) \o <<80 + 8 * Bit(op = "POP") + Lo(d.r)>>
      BY <2>1, Zenon DEF PushPop
    <2>6. IsCode(<<80 + 8 * Bit(op = "POP") + Lo(d.r)>>, 1)
      BY <2>3, OneCode
    <2>7. IsCode(Prefix(d.r >= 8, 65), Bit(d.r >= 8))
      BY <1>1, PrefixCode
    <2>8. IsCode(PushPop(op, d), Bit(d.r >= 8) + 1)
      BY <2>4, <2>5, <2>6, <2>7, JoinCode
    <2>9. QED
      BY <2>4, <2>8
  <1>3. ASSUME NEW d \in I PROVE IsCode(PushPop(op, d), 2 + 3 * Bit(~Below7(d.v)))
    <2>1. d.k = "imm" /\ d.v \in Word8 /\ d.v[1] \in Byte
      BY OperandTypes DEF Word8
    <2>2. CASE Below7(d.v)
      BY <1>1, <2>1, <2>2, TwoCode DEF PushPop, Bit
    <2>3. CASE ~Below7(d.v)
      <3>1. IsCode(Low(d.v, 4), 4)
        BY <2>1, LowCode
      <3>2. IsCode(<<104>> \o Low(d.v, 4), 1 + 4)
        BY <1>1, <3>1, OneCode, JoinCode
      <3>3. QED
        BY <2>1, <2>3, <3>2 DEF PushPop, Bit
    <2>4. QED
      BY <2>2, <2>3
  <1>4. QED
    BY <1>2, <1>3

LEMMA SetCcCode ==
  ASSUME NEW op \in SetOps, NEW d \in B
  PROVE  IsCode(SetCc(op, d), 3 + Bit(d.r >= 4))
  <1> DEFINE c == d.r >= 4
             a == 144 + Condition[op]
             b == 192 + Lo(d.r)
  <1>1. d.r \in 0..15 /\ Condition[op] \in 0..15
    BY OperandTypes, Tables
  <1>2. 15 \in Byte /\ a \in Byte /\ b \in Byte /\ Rex(0, 0, 0, Hi(d.r)) \in Byte
    BY <1>1, HalvesType DEF Byte, Rex
  <1>3. SetCc(op, d) = Prefix(c, Rex(0, 0, 0, Hi(d.r))) \o <<15, a, b>>
    BY DEF SetCc
  <1> HIDE DEF a, b
  <1>4. IsCode(<<15, a, b>>, 3) /\ IsCode(Prefix(c, Rex(0, 0, 0, Hi(d.r))), Bit(c))
    BY <1>2, ThreeCode, PrefixCode
  <1>5. Bit(c) \in Nat /\ Bit(c) + 3 = 3 + Bit(c)
    BY BitType
  <1>6. QED
    BY <1>3, <1>4, <1>5, JoinCode

LEMMA FixedCode ==
  /\ IsCode(Fixed["SYSCALL"], 2) /\ IsCode(Fixed["CQO"], 2)
  /\ IsCode(Fixed["RET"], 1) /\ IsCode(Fixed["NOP"], 1)
  <1>1. {5, 15, 72, 144, 153, 195} \subseteq Byte
    BY DEF Byte
  <1>2. QED
    BY <1>1, OneCode, TwoCode DEF Fixed

----------------------------------------------------------------------------
(* What an instruction is encoded by, and its estimate.                    *)

LEMMA MovRule ==
  ASSUME NEW d, NEW s
  PROVE  /\ Encode(Ins("MOV", d, s)) = Mov(d, s)
         /\ PessimalInstrSize(Ins("MOV", d, s)) = PessimalMov(d, s)
         /\ Underestimated(Ins("MOV", d, s)) <=>
              /\ d.k = "gpr" /\ s.k = "adr"
              /\ Lo(s.r) \in {4, 5} /\ Lo(d.r) # 4
  BY Tables DEF Encode, PessimalInstrSize, Underestimated, Ins, AluOps, ShiftOps,
                SetOps, UnaryOps, MulOps

LEMMA LeaRule ==
  ASSUME NEW d, NEW s
  PROVE  /\ Encode(Ins("LEA", d, s)) = Lea(d, s)
         /\ PessimalInstrSize(Ins("LEA", d, s)) = PessimalMov(d, s)
         /\ ~Underestimated(Ins("LEA", d, s))
  BY Tables DEF Encode, PessimalInstrSize, Underestimated, Ins, AluOps, ShiftOps,
                SetOps, UnaryOps, MulOps

LEMMA AluRule ==
  ASSUME NEW op \in AluOps, NEW d, NEW s
  PROVE  /\ Encode(Ins(op, d, s)) = Alu(op, d, s)
         /\ PessimalInstrSize(Ins(op, d, s)) = PessimalAlu(d, s)
         /\ Underestimated(Ins(op, d, s)) <=>
              \/ d.k = "gpr" /\ s.k = "imm" /\ ~Below7(s.v) /\ d.r # 0
              \/ d.k = "adradd" /\ Lo(d.r) = 4
              \/ d.k = "gprb" /\ s.k = "imm" /\ (d.r = 1 \/ d.r >= 4)
  BY Tables DEF Encode, PessimalInstrSize, Underestimated, Ins, AluOps, ShiftOps,
                SetOps, UnaryOps, MulOps

LEMMA UnaryRule ==
  ASSUME NEW op \in UnaryOps, NEW d, NEW s
  PROVE  /\ Encode(Ins(op, d, s)) = Unary(op, d)
         /\ PessimalInstrSize(Ins(op, d, s)) = 3
         /\ ~Underestimated(Ins(op, d, s))
  BY Tables DEF Encode, PessimalInstrSize, Underestimated, Ins, AluOps, ShiftOps,
                SetOps, UnaryOps, MulOps

LEMMA MulRule ==
  ASSUME NEW op \in MulOps, NEW d, NEW s
  PROVE  /\ Encode(Ins(op, d, s)) = MulDiv(op, d)
         /\ PessimalInstrSize(Ins(op, d, s)) = 3
         /\ ~Underestimated(Ins(op, d, s))
  BY Tables DEF Encode, PessimalInstrSize, Underestimated, Ins, AluOps, ShiftOps,
                SetOps, UnaryOps, MulOps

LEMMA TestRule ==
  ASSUME NEW d, NEW s
  PROVE  /\ Encode(Ins("TEST", d, s)) = Test(d, s)
         /\ PessimalInstrSize(Ins("TEST", d, s)) =
              IF d.k = "gpr" THEN 3 ELSE 2 + Bit(d.r >= 4 \/ s.r >= 4)
         /\ ~Underestimated(Ins("TEST", d, s))
  BY Tables DEF Encode, PessimalInstrSize, Underestimated, Ins, AluOps, ShiftOps,
                SetOps, UnaryOps, MulOps

LEMMA ShiftRule ==
  ASSUME NEW op \in ShiftOps, NEW d, NEW s
  PROVE  /\ Encode(Ins(op, d, s)) = Shift(op, d, s)
         /\ PessimalInstrSize(Ins(op, d, s)) =
              IF s.k = "gprb" \/ s.v[1] = 1 THEN 3 ELSE 4
         /\ ~Underestimated(Ins(op, d, s))
  BY Tables DEF Encode, PessimalInstrSize, Underestimated, Ins, AluOps, ShiftOps,
                SetOps, UnaryOps, MulOps

LEMMA PushPopRule ==
  ASSUME NEW op \in {"PUSH", "POP"}, NEW d, NEW s
  PROVE  /\ Encode(Ins(op, d, s)) = PushPop(op, d)
         /\ PessimalInstrSize(Ins(op, d, s)) = PessimalPush(d)
         /\ ~Underestimated(Ins(op, d, s))
  BY Tables DEF Encode, PessimalInstrSize, Underestimated, Ins, AluOps, ShiftOps,
                SetOps, UnaryOps, MulOps

LEMMA WideRule ==
  ASSUME NEW d, NEW s
  PROVE  /\ Encode(Ins("IMUL", d, s)) = Imul(d, s)
         /\ Encode(Ins("MOVZX", d, s)) = Movzx(d, s)
         /\ \A op \in {"IMUL", "MOVZX"} : /\ PessimalInstrSize(Ins(op, d, s)) = 4
                                          /\ ~Underestimated(Ins(op, d, s))
  BY Tables DEF Encode, PessimalInstrSize, Underestimated, Ins, AluOps, ShiftOps,
                SetOps, UnaryOps, MulOps

LEMMA SetCcRule ==
  ASSUME NEW op \in SetOps, NEW d, NEW s
  PROVE  /\ Encode(Ins(op, d, s)) = SetCc(op, d)
         /\ PessimalInstrSize(Ins(op, d, s)) = 3 + Bit(d.r >= 4)
         /\ ~Underestimated(Ins(op, d, s))
  BY Tables DEF Encode, PessimalInstrSize, Underestimated, Ins, AluOps, ShiftOps,
                SetOps, UnaryOps, MulOps

LEMMA FixedRule ==
  ASSUME NEW op \in FixedOps, NEW d, NEW s
  PROVE  /\ Encode(Ins(op, d, s)) = Fixed[op]
         /\ PessimalInstrSize(Ins(op, d, s)) = IF op \in {"SYSCALL", "CQO"} THEN 2 ELSE 1
         /\ ~Underestimated(Ins(op, d, s))
  BY Tables DEF Encode, PessimalInstrSize, Underestimated, Ins, AluOps, ShiftOps,
                SetOps, UnaryOps, MulOps, FixedOps

----------------------------------------------------------------------------
(* The size of an instruction against its estimate.                        *)

(* i is encoded in at most fifteen bytes, as many as estimated or fewer,   *)
(* and in the forms that are underestimated one more.                      *)
Sized(i) ==
  \E n \in 0..15 :
    /\ IsCode(Encode(i), n)
    /\ n <= PessimalInstrSize(i) + Bit(Underestimated(i))
    /\ Underestimated(i) => n = PessimalInstrSize(i) + 1

LEMMA SizedWithin ==
  ASSUME NEW i, NEW n \in 0..15, IsCode(Encode(i), n), ~Underestimated(i),
         PessimalInstrSize(i) \in Nat, n <= PessimalInstrSize(i)
  PROVE  Sized(i)
  BY DEF Sized, Bit

LEMMA SizedBeyond ==
  ASSUME NEW i, NEW n \in 0..15, IsCode(Encode(i), n), Underestimated(i),
         PessimalInstrSize(i) \in Nat, n = PessimalInstrSize(i) + 1
  PROVE  Sized(i)
  BY DEF Sized, Bit

LEMMA MovGprSized ==
  ASSUME junk \in Byte, NEW d \in G
  PROVE  \A s \in G \cup A \cup O(AdrAdds) \cup X \cup I
                    \cup {Static(v) : v \in Values} : Sized(Ins("MOV", d, s))
  <1>1. d.k = "gpr" /\ d.r \in 0..15
    BY OperandTypes
  <1>2. \A s : Encode(Ins("MOV", d, s)) = MovGpr(d, s)
    BY <1>1, MovRule DEF Mov
  <1>3. ASSUME NEW s \in G PROVE Sized(Ins("MOV", d, s))
    <2>1. s.k = "gpr"
      BY OperandTypes
    <2>2. PessimalInstrSize(Ins("MOV", d, s)) = 3 /\ ~Underestimated(Ins("MOV", d, s))
      BY <1>1, <2>1, MovRule DEF PessimalMov, AdrAdds, Adr64Adds
    <2>3. IsCode(Encode(Ins("MOV", d, s)), 3)
      BY <1>2, MovGprCode
    <2>4. QED
      BY <2>2, <2>3, SizedWithin
  <1>4. ASSUME NEW s \in A PROVE Sized(Ins("MOV", d, s))
    <2> DEFINE i == Ins("MOV", d, s)
               n == 3 + Bit(Lo(s.r) \in {4, 5})
    <2>1. s.k = "adr" /\ s.r \in 0..15
      BY OperandTypes
    <2>2. /\ PessimalInstrSize(i) = 3 + Bit(Lo(d.r) = 4)
          /\ Underestimated(i) <=> Lo(s.r) \in {4, 5} /\ Lo(d.r) # 4
      BY <1>1, <2>1, MovRule DEF PessimalMov, AdrAdds, Adr64Adds
    <2>3. IsCode(Encode(i), n)
      BY <1>2, MovGprCode
    <2> HIDE DEF i
    <2>4. n \in 0..15 /\ PessimalInstrSize(i) \in Nat
      BY <2>2 DEF Bit
    <2>5. CASE Lo(s.r) \in {4, 5} /\ Lo(d.r) # 4
      <3>1. n = PessimalInstrSize(i) + 1 /\ Underestimated(i)
        BY <2>2, <2>5 DEF Bit
      <3> HIDE DEF n
      <3>2. QED
        BY <2>3, <2>4, <3>1, SizedBeyond DEF i
    <2>6. CASE ~(Lo(s.r) \in {4, 5} /\ Lo(d.r) # 4)
      <3>1. n <= PessimalInstrSize(i) /\ ~Underestimated(i)
        BY <2>2, <2>6 DEF Bit
      <3> HIDE DEF n
      <3>2. QED
        BY <2>3, <2>4, <3>1, SizedWithin DEF i
    <2>7. QED
      BY <2>5, <2>6
  <1>5. ASSUME NEW s \in O(AdrAdds) PROVE Sized(Ins("MOV", d, s))
    <2> DEFINE i == Ins("MOV", d, s)
               n == 3 + Bit(Lo(s.r) = 4) + OfstSz(s)
    <2>1. s.k \in AdrAdds /\ s.r \in 0..15 /\ s.v \in Word8
      BY OffsetTypes
    <2>2. /\ PessimalInstrSize(i) = 3 + Bit(Lo(s.r) \in {4, 5}) + OfstSz(s)
          /\ ~Underestimated(i)
      BY <1>1, <2>1, MovRule DEF PessimalMov, AdrAdds, Adr64Adds
    <2>3. IsCode(Encode(i), n)
      BY <1>2, MovGprCode
    <2>4. OfstSz(s) \in 0..4
      BY <2>1, OfstSzType
    <2> HIDE DEF i
    <2>5. n \in 0..15 /\ n <= PessimalInstrSize(i) /\ PessimalInstrSize(i) \in Nat
      BY <2>2, <2>4 DEF Bit
    <2>6. QED
      BY <2>2, <2>3, <2>5, SizedWithin DEF i
  <1>6. ASSUME NEW s \in X PROVE Sized(Ins("MOV", d, s))
    <2> DEFINE i == Ins("MOV", d, s)
               n == 4 + Bit(Lo(s.r) = 5)
    <2>1. s.k = "idx"
      BY OperandTypes
    <2>2. PessimalInstrSize(i) = n /\ ~Underestimated(i)
      BY <1>1, <2>1, MovRule DEF PessimalMov, AdrAdds, Adr64Adds
    <2>3. IsCode(Encode(i), n)
      BY <1>2, MovGprCode
    <2>4. n \in 0..15
      BY DEF Bit
    <2> HIDE DEF i, n
    <2>5. QED
      BY <2>2, <2>3, <2>4, SizedWithin DEF i
  <1>7. ASSUME NEW s \in I PROVE Sized(Ins("MOV", d, s))
    <2> DEFINE i == Ins("MOV", d, s)
               n == IF Below32(s.v) THEN 5 + Bit(d.r >= 8) ELSE 10
    <2>1. s.k = "imm"
      BY OperandTypes
    <2>2. PessimalInstrSize(i) = n /\ ~Underestimated(i)
      BY <1>1, <2>1, MovRule DEF PessimalMov, AdrAdds, Adr64Adds
    <2>3. IsCode(Encode(i), n)
      BY <1>2, MovGprCode
    <2>4. n \in 0..15
      BY DEF Bit
    <2> HIDE DEF i, n
    <2>5. QED
      BY <2>2, <2>3, <2>4, SizedWithin DEF i
  <1>8. ASSUME NEW v \in Values PROVE Sized(Ins("MOV", d, Static(v)))
    <2> DEFINE i == Ins("MOV", d, Static(v))
    <2>1. PessimalInstrSize(i) = 10 /\ ~Underestimated(i)
      BY <1>1, MovRule DEF PessimalMov, AdrAdds, Adr64Adds, Static
    <2>2. IsCode(Encode(i), 10)
      BY <1>2, MovGprCode
    <2> HIDE DEF i
    <2>3. QED
      BY <2>1, <2>2, SizedWithin DEF i
  <1>9. QED
    BY <1>3, <1>4, <1>5, <1>6, <1>7, <1>8

LEMMA MovGprbSized ==
  ASSUME junk \in Byte, NEW d \in B
  PROVE  \A s \in A \cup O(AdrAdds) \cup I : Sized(Ins("MOV", d, s))
  <1>1. d.k = "gprb" /\ d.r \in 0..15
    BY OperandTypes
  <1>2. \A s : Encode(Ins("MOV", d, s)) = MovGprb(d, s)
    BY <1>1, MovRule DEF Mov
  <1>3. ASSUME NEW s \in A PROVE Sized(Ins("MOV", d, s))
    <2> DEFINE i == Ins("MOV", d, s)
               n == 2 + Bit(d.r >= 4 \/ s.r >= 8) + Bit(Lo(s.r) \in {4, 5})
    <2>1. s.k = "adr"
      BY OperandTypes
    <2>2. PessimalInstrSize(i) = n /\ ~Underestimated(i)
      BY <1>1, <2>1, MovRule DEF PessimalMov, AdrAdds, Adr64Adds
    <2>3. IsCode(Encode(i), n)
      BY <1>2, MovGprbCode
    <2>4. n \in 0..15
      BY DEF Bit
    <2> HIDE DEF i, n
    <2>5. QED
      BY <2>2, <2>3, <2>4, SizedWithin DEF i
  <1>4. ASSUME NEW s \in O(AdrAdds) PROVE Sized(Ins("MOV", d, s))
    <2> DEFINE i == Ins("MOV", d, s)
               n == 2 + Bit(d.r >= 4 \/ s.r >= 4) + Bit(Lo(s.r) = 4) + OfstSz(s)
    <2>1. s.k \in AdrAdds /\ s.r \in 0..15 /\ s.v \in Word8
      BY OffsetTypes
    <2>2. PessimalInstrSize(i) = n /\ ~Underestimated(i)
      BY <1>1, <2>1, MovRule DEF PessimalMov, AdrAdds, Adr64Adds
    <2>3. IsCode(Encode(i), n)
      BY <1>2, MovGprbCode
    <2>4. OfstSz(s) \in 0..4
      BY <2>1, OfstSzType
    <2>5. n \in 0..15
      BY <2>4 DEF Bit
    <2> HIDE DEF i, n
    <2>6. QED
      BY <2>2, <2>3, <2>5, SizedWithin DEF i
  <1>5. ASSUME NEW s \in I PROVE Sized(Ins("MOV", d, s))
    <2> DEFINE i == Ins("MOV", d, s)
               n == 2 + Bit(d.r >= 4)
    <2>1. s.k = "imm"
      BY OperandTypes
    <2>2. PessimalInstrSize(i) = n /\ ~Underestimated(i)
      BY <1>1, <2>1, MovRule DEF PessimalMov, AdrAdds, Adr64Adds
    <2>3. IsCode(Encode(i), n)
      BY <1>2, MovGprbCode
    <2>4. n \in 0..15
      BY DEF Bit
    <2> HIDE DEF i, n
    <2>5. QED
      BY <2>2, <2>3, <2>4, SizedWithin DEF i
  <1>6. QED
    BY <1>3, <1>4, <1>5

LEMMA MovAdrSized ==
  ASSUME NEW d \in A
  PROVE  \A s \in G \cup B : Sized(Ins("MOV", d, s))
  <1>1. d.k = "adr" /\ d.r \in 0..15
    BY OperandTypes
  <1>2. \A s : Encode(Ins("MOV", d, s)) = MovAdr(d, s)
    BY <1>1, MovRule DEF Mov
  <1>3. ASSUME NEW s \in G PROVE Sized(Ins("MOV", d, s))
    <2> DEFINE i == Ins("MOV", d, s)
               n == 3 + Bit(Lo(d.r) \in {4, 5})
    <2>1. s.k = "gpr"
      BY OperandTypes
    <2>2. PessimalInstrSize(i) = n /\ ~Underestimated(i)
      BY <1>1, <2>1, MovRule DEF PessimalMov, AdrAdds, Adr64Adds
    <2>3. IsCode(Encode(i), n)
      BY <1>2, MovAdrCode
    <2>4. n \in 0..15
      BY DEF Bit
    <2> HIDE DEF i, n
    <2>5. QED
      BY <2>2, <2>3, <2>4, SizedWithin DEF i
  <1>4. ASSUME NEW s \in B PROVE Sized(Ins("MOV", d, s))
    <2> DEFINE i == Ins("MOV", d, s)
               n == 2 + Bit(Lo(d.r) \in {4, 5}) + Bit(s.r >= 4 \/ d.r >= 8)
    <2>1. s.k = "gprb"
      BY OperandTypes
    <2>2. PessimalInstrSize(i) = n /\ ~Underestimated(i)
      BY <1>1, <2>1, MovRule DEF PessimalMov, AdrAdds, Adr64Adds
    <2>3. IsCode(Encode(i), n)
      BY <1>2, MovAdrCode
    <2>4. n \in 0..15
      BY DEF Bit
    <2> HIDE DEF i, n
    <2>5. QED
      BY <2>2, <2>3, <2>4, SizedWithin DEF i
  <1>5. QED
    BY <1>3, <1>4

LEMMA MovAdrAddSized ==
  ASSUME NEW d \in O(AdrAdds \cup Adr64Adds)
  PROVE  /\ \A s \in G \cup B : Sized(Ins("MOV", d, s))
         /\ d.k \in Adr64Adds => \A s \in I : Sized(Ins("MOV", d, s))
  <1>1. d.k \in AdrAdds \cup Adr64Adds /\ d.r \in 0..15
    BY OffsetTypes
  <1>2. \A s : Encode(Ins("MOV", d, s)) = MovAdrAdd(d, s)
    BY <1>1, MovRule DEF Mov, AdrAdds, Adr64Adds
  <1>3. ASSUME NEW s \in G PROVE Sized(Ins("MOV", d, s))
    <2> DEFINE i == Ins("MOV", d, s)
               n == 2 + StoreSz(d)
    <2>1. s.k = "gpr"
      BY OperandTypes
    <2>2. /\ PessimalInstrSize(i) = 4 + 3 * Bit(~Below7(d.v)) + Bit(Lo(d.r) = 4)
          /\ ~Underestimated(i)
      BY <1>1, <2>1, MovRule DEF PessimalMov, AdrAdds, Adr64Adds
    <2>3. IsCode(Encode(i), n)
      BY <1>2, MovAdrAddCode
    <2>4. /\ n \in 0..15
          /\ n = 4 + 3 * Bit(~Below7(d.v)) + Bit(Lo(d.r) = 4)
      BY DEF Bit, StoreSz
    <2> HIDE DEF i, n
    <2>5. QED
      BY <2>2, <2>3, <2>4, SizedWithin DEF i
  <1>4. ASSUME NEW s \in B PROVE Sized(Ins("MOV", d, s))
    <2> DEFINE i == Ins("MOV", d, s)
               n == 1 + StoreSz(d) + Bit(s.r >= 4 \/ d.r >= 8)
               p == 3 + Bit(d.r >= 4 \/ s.r >= 4) + 3 * Bit(~Below7(d.v)) + Bit(Lo(d.r) = 4)
    <2>1. s.k = "gprb" /\ s.r \in 0..15
      BY OperandTypes
    <2>2. PessimalInstrSize(i) = p /\ ~Underestimated(i)
      BY <1>1, <2>1, MovRule DEF PessimalMov, AdrAdds, Adr64Adds
    <2>3. IsCode(Encode(i), n)
      BY <1>2, MovAdrAddCode
    <2>4. n \in 0..15 /\ p \in Nat /\ n <= p
      <3>1. Bit(s.r >= 4 \/ d.r >= 8) <= Bit(d.r >= 4 \/ s.r >= 4)
        BY <1>1, <2>1 DEF Bit
      <3>2. /\ Bit(s.r >= 4 \/ d.r >= 8) \in 0..1 /\ Bit(d.r >= 4 \/ s.r >= 4) \in 0..1
            /\ Bit(~Below7(d.v)) \in 0..1 /\ Bit(Lo(d.r) = 4) \in 0..1
        BY BitType
      <3>3. QED
        BY <3>1, <3>2 DEF StoreSz
    <2> HIDE DEF i, n, p
    <2>5. QED
      BY <2>2, <2>3, <2>4, SizedWithin DEF i
  <1>5. ASSUME d.k \in Adr64Adds, NEW s \in I PROVE Sized(Ins("MOV", d, s))
    <2> DEFINE i == Ins("MOV", d, s)
               n == 6 + StoreSz(d)
    <2>1. s.k = "imm"
      BY OperandTypes
    <2>2. /\ PessimalInstrSize(i) = 4 + 4 + 3 * Bit(~Below7(d.v)) + Bit(Lo(d.r) = 4)
          /\ ~Underestimated(i)
      BY <1>5, <2>1, MovRule DEF PessimalMov, AdrAdds, Adr64Adds
    <2>3. IsCode(Encode(i), n)
      BY <1>2, MovAdrAddCode
    <2>4. /\ n \in 0..15
          /\ n = 4 + 4 + 3 * Bit(~Below7(d.v)) + Bit(Lo(d.r) = 4)
      BY DEF Bit, StoreSz
    <2> HIDE DEF i, n
    <2>5. QED
      BY <2>2, <2>3, <2>4, SizedWithin DEF i
  <1>6. QED
    BY <1>3, <1>4, <1>5

LEMMA LeaSized ==
  ASSUME junk \in Byte, NEW d \in G
  PROVE  \A s \in O(AdrAdds) \cup X : Sized(Ins("LEA", d, s))
  <1>1. d.k = "gpr" /\ d.r \in 0..15
    BY OperandTypes
  <1>2. ASSUME NEW s \in O(AdrAdds) PROVE Sized(Ins("LEA", d, s))
    <2> DEFINE i == Ins("LEA", d, s)
               n == 3 + Bit(Lo(s.r) = 4) + OfstSz(s)
    <2>1. s.k \in AdrAdds /\ s.r \in 0..15 /\ s.v \in Word8
      BY OffsetTypes
    <2>2. /\ PessimalInstrSize(i) = 3 + Bit(Lo(s.r) \in {4, 5}) + OfstSz(s)
          /\ ~Underestimated(i)
      BY <1>1, <2>1, LeaRule DEF PessimalMov, AdrAdds, Adr64Adds
    <2>3. IsCode(Encode(i), n)
      BY LeaRule, LeaCode
    <2>4. OfstSz(s) \in 0..4
      BY <2>1, OfstSzType
    <2> HIDE DEF i
    <2>5. n \in 0..15 /\ n <= PessimalInstrSize(i) /\ PessimalInstrSize(i) \in Nat
      BY <2>2, <2>4 DEF Bit
    <2>6. QED
      BY <2>2, <2>3, <2>5, SizedWithin DEF i
  <1>3. ASSUME NEW s \in X PROVE Sized(Ins("LEA", d, s))
    <2> DEFINE i == Ins("LEA", d, s)
               n == 4 + Bit(Lo(s.r) = 5)
    <2>1. s.k = "idx"
      BY OperandTypes
    <2>2. PessimalInstrSize(i) = n /\ ~Underestimated(i)
      BY <1>1, <2>1, LeaRule DEF PessimalMov, AdrAdds, Adr64Adds
    <2>3. IsCode(Encode(i), n)
      BY LeaRule, LeaCode
    <2>4. n \in 0..15
      BY DEF Bit
    <2> HIDE DEF i, n
    <2>5. QED
      BY <2>2, <2>3, <2>4, SizedWithin DEF i
  <1>4. QED
    BY <1>2, <1>3

LEMMA AluSized ==
  ASSUME NEW op \in AluOps
  PROVE  /\ \A d \in G, s \in G \cup I : Sized(Ins(op, d, s))
         /\ \A d \in B, s \in B \cup I : Sized(Ins(op, d, s))
         /\ \A d \in O(AdrAdds), s \in G : Sized(Ins(op, d, s))
  <1>1. ASSUME NEW d \in G, NEW s \in G PROVE Sized(Ins(op, d, s))
    <2> DEFINE i == Ins(op, d, s)
               n == 2 + Bit(op # "XOR" \/ d.r # s.r \/ d.r >= 8)
    <2>1. d.k = "gpr" /\ s.k = "gpr"
      BY OperandTypes
    <2>2. PessimalInstrSize(i) = 3 /\ ~Underestimated(i)
      BY <2>1, AluRule DEF PessimalAlu, AdrAdds
    <2>3. IsCode(Encode(i), n)
      BY <2>1, AluRule, AluGprCode DEF Alu
    <2>4. n \in 0..15 /\ n <= 3
      BY DEF Bit
    <2> HIDE DEF i, n
    <2>5. QED
      BY <2>2, <2>3, <2>4, SizedWithin DEF i
  <1>2. ASSUME NEW d \in G, NEW s \in I PROVE Sized(Ins(op, d, s))
    <2> DEFINE i == Ins(op, d, s)
               n == IF Below7(s.v) THEN 4 ELSE 7 - Bit(d.r = 0)
    <2>1. d.k = "gpr" /\ s.k = "imm"
      BY OperandTypes
    <2>2. /\ PessimalInstrSize(i) = 4 + 2 * Bit(~Below7(s.v))
          /\ Underestimated(i) <=> ~Below7(s.v) /\ d.r # 0
      BY <2>1, AluRule DEF PessimalAlu, AdrAdds
    <2>3. IsCode(Encode(i), n)
      BY <2>1, AluRule, AluGprCode DEF Alu
    <2>4. n \in 0..15 /\ PessimalInstrSize(i) \in Nat
      BY <2>2 DEF Bit
    <2> HIDE DEF i
    <2>5. CASE ~Below7(s.v) /\ d.r # 0
      <3>1. n = PessimalInstrSize(i) + 1 /\ Underestimated(i)
        BY <2>2, <2>5 DEF Bit
      <3> HIDE DEF n
      <3>2. QED
        BY <2>3, <2>4, <3>1, SizedBeyond DEF i
    <2>6. CASE ~(~Below7(s.v) /\ d.r # 0)
      <3>1. n <= PessimalInstrSize(i) /\ ~Underestimated(i)
        BY <2>2, <2>6 DEF Bit
      <3> HIDE DEF n
      <3>2. QED
        BY <2>3, <2>4, <3>1, SizedWithin DEF i
    <2>7. QED
      BY <2>5, <2>6
  <1>3. ASSUME NEW d \in B, NEW s \in B PROVE Sized(Ins(op, d, s))
    <2> DEFINE i == Ins(op, d, s)
               n == 2 + Bit(d.r >= 4 \/ s.r >= 4)
    <2>1. d.k = "gprb" /\ s.k = "gprb"
      BY OperandTypes
    <2>2. PessimalInstrSize(i) = n /\ ~Underestimated(i)
      BY <2>1, AluRule DEF PessimalAlu, AdrAdds
    <2>3. IsCode(Encode(i), n)
      BY <2>1, AluRule, AluGprbCode DEF Alu
    <2>4. n \in 0..15
      BY DEF Bit
    <2> HIDE DEF i, n
    <2>5. QED
      BY <2>2, <2>3, <2>4, SizedWithin DEF i
  <1>4. ASSUME NEW d \in B, NEW s \in I PROVE Sized(Ins(op, d, s))
    <2> DEFINE i == Ins(op, d, s)
               n == IF d.r = 0 THEN 2 ELSE 3 + Bit(d.r >= 4)
    <2>1. d.k = "gprb" /\ s.k = "imm" /\ d.r \in 0..15
      BY OperandTypes
    <2>2. /\ PessimalInstrSize(i) = 2 + Bit(d.r = 0) + Bit(d.r >= 2)
          /\ Underestimated(i) <=> d.r = 1 \/ d.r >= 4
      BY <2>1, AluRule DEF PessimalAlu, AdrAdds
    <2>3. IsCode(Encode(i), n)
      BY <2>1, AluRule, AluGprbCode DEF Alu
    <2>4. n \in 0..15 /\ PessimalInstrSize(i) \in Nat
      BY <2>2 DEF Bit
    <2> HIDE DEF i
    <2>5. CASE d.r = 1 \/ d.r >= 4
      <3>1. n = PessimalInstrSize(i) + 1 /\ Underestimated(i)
        BY <2>1, <2>2, <2>5 DEF Bit
      <3> HIDE DEF n
      <3>2. QED
        BY <2>3, <2>4, <3>1, SizedBeyond DEF i
    <2>6. CASE ~(d.r = 1 \/ d.r >= 4)
      <3>1. n <= PessimalInstrSize(i) /\ ~Underestimated(i)
        BY <2>1, <2>2, <2>6 DEF Bit
      <3> HIDE DEF n
      <3>2. QED
        BY <2>3, <2>4, <3>1, SizedWithin DEF i
    <2>7. QED
      BY <2>5, <2>6
  <1>5. ASSUME NEW d \in O(AdrAdds), NEW s \in G PROVE Sized(Ins(op, d, s))
    <2> DEFINE i == Ins(op, d, s)
               n == 2 + StoreSz(d)
    <2>1. d.k \in AdrAdds /\ s.k = "gpr"
      BY OffsetTypes, OperandTypes
    <2>2. /\ PessimalInstrSize(i) = 4 + 3 * Bit(~Below7(d.v)) + Bit(d.k = "adrsub")
          /\ Underestimated(i) <=> d.k = "adradd" /\ Lo(d.r) = 4
      BY <2>1, AluRule DEF PessimalAlu, AdrAdds
    <2>3. IsCode(Encode(i), n)
      BY <2>1, AluRule, AluAdrAddCode DEF Alu, AdrAdds
    <2>4. /\ n = 4 + 3 * Bit(~Below7(d.v)) + Bit(Lo(d.r) = 4)
          /\ Bit(~Below7(d.v)) \in 0..1
      BY BitType DEF StoreSz, Bit
    <2>5. n \in 0..15 /\ PessimalInstrSize(i) \in Nat
      BY <2>2, <2>4 DEF Bit
    <2> HIDE DEF i, n
    <2>6. CASE d.k = "adradd" /\ Lo(d.r) = 4
      <3>1. n = PessimalInstrSize(i) + 1 /\ Underestimated(i)
        BY <2>2, <2>4, <2>6 DEF Bit
      <3>2. QED
        BY <2>3, <2>5, <3>1, SizedBeyond DEF i
    <2>7. CASE ~(d.k = "adradd" /\ Lo(d.r) = 4)
      <3>1. Bit(Lo(d.r) = 4) <= Bit(d.k = "adrsub")
        BY <2>1, <2>7 DEF Bit, AdrAdds
      <3>2. Bit(Lo(d.r) = 4) \in 0..1 /\ Bit(d.k = "adrsub") \in 0..1
        BY BitType
      <3>3. n <= PessimalInstrSize(i) /\ ~Underestimated(i)
        BY <2>2, <2>4, <2>7, <3>1, <3>2
      <3>4. QED
        BY <2>3, <2>5, <3>3, SizedWithin DEF i
    <2>8. QED
      BY <2>6, <2>7
  <1>6. QED
    BY <1>1, <1>2, <1>3, <1>4, <1>5

LEMMA SmallSized ==
  /\ \A op \in UnaryOps \cup MulOps, d \in G : Sized(Ins(op, d, None))
  /\ \A d, s \in G : Sized(Ins("IMUL", d, s))
  /\ \A d \in G, s \in B : Sized(Ins("MOVZX", d, s))
  /\ \A op \in FixedOps : Sized(Ins(op, None, None))
  <1>1. ASSUME NEW op \in UnaryOps \cup MulOps, NEW d \in G
        PROVE  Sized(Ins(op, d, None))
    <2> DEFINE i == Ins(op, d, None)
    <2>1. IsCode(Encode(i), 3) /\ PessimalInstrSize(i) = 3 /\ ~Underestimated(i)
      BY UnaryRule, MulRule, UnaryCode, MulDivCode
    <2> HIDE DEF i
    <2>2. QED
      BY <2>1, SizedWithin DEF i
  <1>2. ASSUME NEW d \in G, NEW s \in G PROVE Sized(Ins("IMUL", d, s))
    <2> DEFINE i == Ins("IMUL", d, s)
    <2>1. IsCode(Encode(i), 4) /\ PessimalInstrSize(i) = 4 /\ ~Underestimated(i)
      BY WideRule, WideCode
    <2> HIDE DEF i
    <2>2. QED
      BY <2>1, SizedWithin DEF i
  <1>3. ASSUME NEW d \in G, NEW s \in B PROVE Sized(Ins("MOVZX", d, s))
    <2> DEFINE i == Ins("MOVZX", d, s)
    <2>1. IsCode(Encode(i), 4) /\ PessimalInstrSize(i) = 4 /\ ~Underestimated(i)
      BY WideRule, WideCode
    <2> HIDE DEF i
    <2>2. QED
      BY <2>1, SizedWithin DEF i
  <1>4. ASSUME NEW op \in FixedOps PROVE Sized(Ins(op, None, None))
    <2> DEFINE i == Ins(op, None, None)
               n == IF op \in {"SYSCALL", "CQO"} THEN 2 ELSE 1
    <2>1. IsCode(Fixed[op], n)
      BY FixedCode DEF FixedOps
    <2>2. IsCode(Encode(i), n) /\ PessimalInstrSize(i) = n /\ ~Underestimated(i)
      BY <2>1, FixedRule
    <2>3. n \in 0..15
      OBVIOUS
    <2> HIDE DEF i, n
    <2>4. QED
      BY <2>2, <2>3, SizedWithin DEF i
  <1>5. QED
    BY <1>1, <1>2, <1>3, <1>4

LEMMA TestSized ==
  /\ \A d, s \in G : Sized(Ins("TEST", d, s))
  /\ \A d, s \in B : Sized(Ins("TEST", d, s))
  <1>1. ASSUME NEW d \in G, NEW s \in G PROVE Sized(Ins("TEST", d, s))
    <2> DEFINE i == Ins("TEST", d, s)
    <2>1. d.k = "gpr"
      BY OperandTypes
    <2>2. IsCode(Encode(i), 3) /\ PessimalInstrSize(i) = 3 /\ ~Underestimated(i)
      BY <2>1, TestRule, TestCode
    <2> HIDE DEF i
    <2>3. QED
      BY <2>2, SizedWithin DEF i
  <1>2. ASSUME NEW d \in B, NEW s \in B PROVE Sized(Ins("TEST", d, s))
    <2> DEFINE i == Ins("TEST", d, s)
               n == 2 + Bit(d.r >= 4 \/ s.r >= 4)
    <2>1. d.k = "gprb"
      BY OperandTypes
    <2>2. IsCode(Encode(i), n) /\ PessimalInstrSize(i) = n /\ ~Underestimated(i)
      BY <2>1, TestRule, TestCode
    <2>3. n \in 0..15
      BY DEF Bit
    <2> HIDE DEF i, n
    <2>4. QED
      BY <2>2, <2>3, SizedWithin DEF i
  <1>3. QED
    BY <1>1, <1>2

LEMMA ShiftSized ==
  ASSUME NEW op \in ShiftOps, NEW d \in G
  PROVE  \A s \in {Gprb(1)} \cup I : Sized(Ins(op, d, s))
  <1>1. Sized(Ins(op, d, Gprb(1)))
    <2> DEFINE i == Ins(op, d, Gprb(1))
    <2>1. IsCode(Encode(i), 3)
      BY ShiftRule, ShiftCode
    <2>2. PessimalInstrSize(i) = 3 /\ ~Underestimated(i)
      BY ShiftRule DEF Gprb
    <2> HIDE DEF i
    <2>3. QED
      BY <2>1, <2>2, SizedWithin DEF i
  <1>2. ASSUME NEW s \in I PROVE Sized(Ins(op, d, s))
    <2> DEFINE i == Ins(op, d, s)
               n == IF s.v[1] = 1 THEN 3 ELSE 4
    <2>1. s.k = "imm"
      BY OperandTypes
    <2>2. IsCode(Encode(i), n)
      BY ShiftRule, ShiftCode
    <2>3. PessimalInstrSize(i) = n /\ ~Underestimated(i)
      BY <2>1, ShiftRule
    <2>4. n \in 0..15
      OBVIOUS
    <2> HIDE DEF i, n
    <2>5. QED
      BY <2>2, <2>3, <2>4, SizedWithin DEF i
  <1>3. QED
    BY <1>1, <1>2

LEMMA PushPopSized ==
  /\ \A d \in G \cup I : Sized(Ins("PUSH", d, None))
  /\ \A d \in G : Sized(Ins("POP", d, None))
  <1>1. ASSUME NEW op \in {"PUSH", "POP"}, NEW d \in G
        PROVE  Sized(Ins(op, d, None))
    <2> DEFINE i == Ins(op, d, None)
               n == 1 + Bit(d.r >= 8)
    <2>1. d.k = "gpr"
      BY OperandTypes
    <2>2. IsCode(Encode(i), n)
      BY PushPopRule, PushPopCode
    <2>3. PessimalInstrSize(i) = n /\ ~Underestimated(i)
      BY <2>1, PushPopRule DEF PessimalPush
    <2>4. n \in 0..15
      BY DEF Bit
    <2> HIDE DEF i, n
    <2>5. QED
      BY <2>2, <2>3, <2>4, SizedWithin DEF i
  <1>2. ASSUME NEW d \in I PROVE Sized(Ins("PUSH", d, None))
    <2> DEFINE i == Ins("PUSH", d, None)
               n == 2 + 3 * Bit(~Below7(d.v))
    <2>1. d.k = "imm"
      BY OperandTypes
    <2>2. IsCode(Encode(i), n)
      BY PushPopRule, PushPopCode
    <2>3. PessimalInstrSize(i) = n /\ ~Underestimated(i)
      BY <2>1, PushPopRule DEF PessimalPush
    <2>4. n \in 0..15
      BY DEF Bit
    <2> HIDE DEF i, n
    <2>5. QED
      BY <2>2, <2>3, <2>4, SizedWithin DEF i
  <1>3. QED
    BY <1>1, <1>2

LEMMA SetCcSized ==
  ASSUME NEW op \in SetOps, NEW d \in B
  PROVE  Sized(Ins(op, d, None))
  <1> DEFINE i == Ins(op, d, None)
             n == 3 + Bit(d.r >= 4)
  <1>1. IsCode(Encode(i), n)
    BY SetCcRule, SetCcCode
  <1>2. PessimalInstrSize(i) = n /\ ~Underestimated(i)
    BY SetCcRule
  <1>3. n \in 0..15
    BY DEF Bit
  <1> HIDE DEF i, n
  <1>4. QED
    BY <1>1, <1>2, <1>3, SizedWithin DEF i

(* An instruction of a form is made of operands of that form. *)
LEMMA AllIn ==
  ASSUME NEW op, NEW D, NEW S, NEW i \in All(op, D, S)
  PROVE  \E d \in D, s \in S : i = Ins(op, d, s)
  BY DEF All

(* Every instruction the writer accepts, in every of its forms. *)
THEOREM InstructionsSized ==
  ASSUME junk \in Byte, NEW i \in Instructions
  PROVE  Sized(i)
  <1> DEFINE MovToReg == All("MOV", G, G \cup A \cup O(AdrAdds) \cup X \cup I
                                     \cup {Static(v) : v \in Values})
             MovToByte == All("MOV", B, A \cup O(AdrAdds) \cup I)
             MovToMem == All("MOV", A \cup O(AdrAdds), G \cup B)
             MovTo64 == All("MOV", O(Adr64Adds), G \cup B \cup I)
             Leas == All("LEA", G, O(AdrAdds) \cup X)
             Tests == All("TEST", G, G)
             ByteTests == All("TEST", B, B)
             Imuls == All("IMUL", G, G)
             Movzxs == All("MOVZX", G, B)
             Pushes == All("PUSH", G \cup I, {None})
             Pops == All("POP", G, {None})
             Alus(op) == All(op, G, G \cup I) \cup All(op, B, B \cup I)
                           \cup All(op, O(AdrAdds), G)
  <1>1. \/ i \in MovToReg \/ i \in MovToByte \/ i \in MovToMem \/ i \in MovTo64 \/ i \in Leas
        \/ i \in Tests \/ i \in ByteTests \/ i \in Imuls \/ i \in Movzxs \/ i \in Pushes
        \/ i \in Pops
        \/ \E op \in AluOps : i \in Alus(op)
        \/ \E op \in UnaryOps \cup MulOps : i \in All(op, G, {None})
        \/ \E op \in ShiftOps : i \in All(op, G, {Gprb(1)} \cup I)
        \/ \E op \in SetOps : i \in All(op, B, {None})
        \/ \E op \in FixedOps : i \in All(op, {None}, {None})
    <2>1. PICK M : /\ i \in M
                   /\ \/ M \in {MovToReg, MovToByte, MovToMem, MovTo64, Leas, Tests,
                               ByteTests, Imuls, Movzxs, Pushes, Pops}
                      \/ M \in {Alus(op) : op \in DOMAIN Digit}
                      \/ M \in {All(op, G, {None}) : op \in UnaryOps \cup MulOps}
                      \/ M \in {All(op, G, {Gprb(1)} \cup I) : op \in DOMAIN ShiftDigit}
                      \/ M \in {All(op, B, {None}) : op \in DOMAIN Condition}
                      \/ M \in {All(op, {None}, {None}) : op \in DOMAIN Fixed}
      BY Zenon DEF Instructions
    <2> HIDE DEF MovToReg, MovToByte, MovToMem, MovTo64, Leas, Tests, ByteTests,
                 Imuls, Movzxs, Pushes, Pops
    <2>2. QED
      BY <2>1, Tables, Zenon
  <1>2. CASE i \in MovToReg
    BY <1>2, AllIn, MovGprSized
  <1>3. CASE i \in MovToByte
    BY <1>3, AllIn, MovGprbSized
  <1>4. CASE i \in MovToMem
    <2>1. PICK d \in A \cup O(AdrAdds), s \in G \cup B : i = Ins("MOV", d, s)
      BY <1>4, AllIn
    <2>2. CASE d \in A
      BY <2>1, <2>2, MovAdrSized
    <2>3. CASE d \in O(AdrAdds)
      <3>1. d \in O(AdrAdds \cup Adr64Adds)
        BY <2>3 DEF O
      <3>2. QED
        BY <2>1, <3>1, MovAdrAddSized
    <2>4. QED
      BY <2>2, <2>3
  <1>5. CASE i \in MovTo64
    <2>1. PICK d \in O(Adr64Adds), s \in G \cup B \cup I : i = Ins("MOV", d, s)
      BY <1>5, AllIn
    <2>2. d \in O(AdrAdds \cup Adr64Adds) /\ d.k \in Adr64Adds
      BY <2>1, OffsetTypes DEF O
    <2>3. QED
      BY <2>1, <2>2, MovAdrAddSized
  <1>6. CASE i \in Leas
    BY <1>6, AllIn, LeaSized
  <1>7. CASE i \in Tests \/ i \in ByteTests
    BY <1>7, AllIn, TestSized
  <1>8. CASE i \in Imuls \/ i \in Movzxs
    BY <1>8, AllIn, SmallSized
  <1>9. CASE i \in Pushes \/ i \in Pops
    BY <1>9, AllIn, PushPopSized
  <1>10. CASE \E op \in AluOps : i \in Alus(op)
    <2>1. PICK op \in AluOps : i \in Alus(op)
      BY <1>10
    <2>2. \/ \E d \in G, s \in G \cup I : i = Ins(op, d, s)
          \/ \E d \in B, s \in B \cup I : i = Ins(op, d, s)
          \/ \E d \in O(AdrAdds), s \in G : i = Ins(op, d, s)
      BY <2>1, AllIn
    <2>3. QED
      BY <2>2, AluSized
  <1>11. CASE \E op \in UnaryOps \cup MulOps : i \in All(op, G, {None})
    BY <1>11, AllIn, SmallSized
  <1>12. CASE \E op \in ShiftOps : i \in All(op, G, {Gprb(1)} \cup I)
    BY <1>12, AllIn, ShiftSized
  <1>13. CASE \E op \in SetOps : i \in All(op, B, {None})
    BY <1>13, AllIn, SetCcSized
  <1>14. CASE \E op \in FixedOps : i \in All(op, {None}, {None})
    BY <1>14, AllIn, SmallSized
  <1>15. QED
    BY <1>1, <1>2, <1>3, <1>4, <1>5, <1>6, <1>7, <1>8, <1>9, <1>10, <1>11, <1>12, <1>13, <1>14

----------------------------------------------------------------------------
(* What the instructions are read back as.                                 *)

(* The bytes t lie in c from n on. *)
At(c, n, t) == \A i \in 1..Len(t) : c[n + i - 1] = t[i]

LEMMA AtJoin ==
  ASSUME NEW c, NEW n \in Nat, NEW s, NEW t, NEW k \in Nat, NEW m \in Nat,
         IsCode(s, k), IsCode(t, m), At(c, n, s \o t)
  PROVE  At(c, n, s) /\ At(c, n + k, t)
  <1>1. /\ Len(s) = k /\ Len(t) = m /\ Len(s \o t) = k + m
        /\ \A i \in 1..(k + m) : (s \o t)[i] = IF i <= k THEN s[i] ELSE t[i - k]
    BY ConcatProperties DEF IsCode
  <1> DEFINE u == s \o t
  <1> HIDE DEF u
  <1>2. \A i \in 1..(k + m) : c[n + i - 1] = u[i]
    BY <1>1 DEF At, u
  <1>3. ASSUME NEW i \in 1..k PROVE c[n + i - 1] = s[i]
    BY <1>1, <1>2 DEF u
  <1>4. ASSUME NEW i \in 1..m PROVE c[n + k + i - 1] = t[i]
    <2>1. /\ k + i \in 1..(k + m) /\ ~(k + i <= k) /\ (k + i) - k = i
          /\ n + (k + i) - 1 = n + k + i - 1
      OBVIOUS
    <2>2. c[n + (k + i) - 1] = u[k + i] /\ u[k + i] = t[(k + i) - k]
      BY <1>1, <1>2, <2>1 DEF u
    <2>3. QED
      BY <2>1, <2>2
  <1>5. QED
    BY <1>1, <1>3, <1>4 DEF At

LEMMA AtOne ==
  ASSUME NEW c, NEW n \in Nat, NEW a, At(c, n, <<a>>)
  PROVE  c[n] = a
  BY DEF At

LEMMA AtTwo ==
  ASSUME NEW c, NEW n \in Nat, NEW a, NEW b, At(c, n, <<a, b>>)
  PROVE  c[n] = a /\ c[n + 1] = b
  BY DEF At

LEMMA AtThree ==
  ASSUME NEW c, NEW n \in Nat, NEW a, NEW b, NEW d, At(c, n, <<a, b, d>>)
  PROVE  c[n] = a /\ c[n + 1] = b /\ c[n + 2] = d
  BY DEF At

LEMMA AtFour ==
  ASSUME NEW c, NEW n \in Nat, NEW a, NEW b, NEW d, NEW e, At(c, n, <<a, b, d, e>>)
  PROVE  c[n] = a /\ c[n + 1] = b /\ c[n + 2] = d /\ c[n + 3] = e
  BY DEF At

LEMMA ZerosCode == IsCode([n \in 1..16 |-> 0], 16)
  <1> DEFINE v == [n \in 1..16 |-> 0]
  <1>1. v \in Seq(Byte)
    BY SeqDef DEF Byte
  <1>2. DOMAIN v = 1..Len(v) /\ Len(v) \in Nat /\ DOMAIN v = 1..16
    BY <1>1, LenProperties
  <1>3. ASSUME NEW n \in Nat, 1..n = 1..16
        PROVE  n = 16
    <2>1. 16 \in 1..16 /\ 17 \notin 1..16
      OBVIOUS
    <2>2. 16 \in 1..n /\ 17 \notin 1..n
      BY <1>3, <2>1
    <2>3. QED
      BY <2>2
  <1>4. Len(v) = 16
    BY <1>2, <1>3
  <1>5. QED
    BY <1>1, <1>4 DEF IsCode

LEMMA PaddedFacts ==
  ASSUME NEW s, NEW n \in Nat, IsCode(s, n)
  PROVE  /\ At(Padded(s), 1, s) /\ Len(s) = n
         /\ \A i \in 1..(n + 16) : Padded(s)[i] \in Byte
  <1> DEFINE z == [i \in 1..16 |-> 0]
             c == Padded(s)
  <1>1. IsCode(z, 16) /\ c = s \o z
    BY ZerosCode DEF Padded
  <1> HIDE DEF z, c
  <1>2. IsCode(c, n + 16) /\ Len(s) = n
    <2>1. 16 \in Nat /\ IsCode(s \o z, n + 16)
      BY <1>1, JoinCode
    <2>2. QED
      BY <1>1, <2>1 DEF IsCode
  <1>2a. \A i \in 1..n : c[i] = s[i]
    <2>1. s \in Seq(Byte) /\ z \in Seq(Byte) /\ Len(z) = 16
      BY <1>1 DEF IsCode
    <2>2. \A i \in 1..(Len(s) + Len(z)) : (s \o z)[i] = IF i <= Len(s) THEN s[i] ELSE z[i - Len(s)]
      BY <2>1, ConcatProperties
    <2>3. \A i \in 1..n : i \in 1..(n + 16) /\ i <= n
      OBVIOUS
    <2>4. QED
      BY <1>1, <1>2, <2>1, <2>2, <2>3
  <1>3. \A i \in 1..(n + 16) : c[i] \in Byte
    BY <1>2, ElementOfSeq DEF IsCode
  <1>4. \A i \in 1..n : c[1 + i - 1] = s[i]
    BY <1>2a
  <1>5. QED
    BY <1>2, <1>3, <1>4 DEF At, c

(* The opcode without a prefix before it, and with one. *)
LEMMA LeadBare ==
  ASSUME NEW c, c[1] \in Byte, c[1] \notin 64..79, c[1] # 15
  PROVE  Lead(c) = [p |-> 0, rex |-> 0, o |-> c[1], n |-> 2]
  <1>1. Bit(c[1] \in 64..79) = 0 /\ Bit(c[0 + 1] = 15) = 0 /\ 0 + 2 + 0 = 2
    BY DEF Bit
  <1>2. QED
    BY <1>1 DEF Lead

LEMMA LeadPrefixed ==
  ASSUME NEW c, c[1] \in 64..79, c[2] \in Byte, c[2] # 15
  PROVE  Lead(c) = [p |-> 1, rex |-> c[1] - 64, o |-> c[2], n |-> 3]
  <1>1. Bit(c[1] \in 64..79) = 1 /\ Bit(c[1 + 1] = 15) = 0 /\ 1 + 2 + 0 = 3
    BY DEF Bit
  <1>2. QED
    BY <1>1 DEF Lead

LEMMA LeadBareTwo ==
  ASSUME NEW c, c[1] = 15, c[2] \in Byte
  PROVE  Lead(c) = [p |-> 0, rex |-> 0, o |-> 256 + c[2], n |-> 3]
  <1>1. Bit(c[1] \in 64..79) = 0 /\ Bit(c[0 + 1] = 15) = 1 /\ 0 + 2 + 1 = 3
    BY DEF Bit
  <1>2. QED
    BY <1>1 DEF Lead

LEMMA LeadPrefixedTwo ==
  ASSUME NEW c, c[1] \in 64..79, c[2] = 15, c[3] \in Byte
  PROVE  Lead(c) = [p |-> 1, rex |-> c[1] - 64, o |-> 256 + c[3], n |-> 4]
  <1>1. Bit(c[1] \in 64..79) = 1 /\ Bit(c[1 + 1] = 15) = 1 /\ 1 + 2 + 1 = 4
    BY DEF Bit
  <1>2. QED
    BY <1>1 DEF Lead

----------------------------------------------------------------------------
(* Fields.                                                                 *)

(* The bits of a prefix for the registers r and m. *)
Fields(rex, r, m) ==
  /\ rex \in 0..15
  /\ (rex \div 4) % 2 = Hi(r) /\ (rex \div 2) % 2 = 0 /\ rex % 2 = Hi(m)

LEMMA RexFields ==
  ASSUME NEW w \in 0..1, NEW r \in 0..15, NEW m \in 0..15
  PROVE  /\ Rex(w, Hi(r), 0, Hi(m)) \in 64..79
         /\ Fields(Rex(w, Hi(r), 0, Hi(m)) - 64, r, m)
         /\ (Rex(w, Hi(r), 0, Hi(m)) - 64) \div 8 = w
  <1>1. Hi(r) \in 0..1 /\ Hi(m) \in 0..1
    BY HalvesType
  <1> DEFINE a == Hi(r)
             b == Hi(m)
  <1>2. a \in 0..1 /\ b \in 0..1
    BY <1>1
  <1> HIDE DEF a, b
  <1>3. /\ Rex(w, a, 0, b) \in 64..79
        /\ (Rex(w, a, 0, b) - 64) \div 8 = w
        /\ ((Rex(w, a, 0, b) - 64) \div 4) % 2 = a
        /\ ((Rex(w, a, 0, b) - 64) \div 2) % 2 = 0
        /\ (Rex(w, a, 0, b) - 64) % 2 = b
    BY <1>2 DEF Rex
  <1>4. Rex(w, a, 0, b) - 64 \in 0..15
    BY <1>3
  <1>5. QED
    BY <1>3, <1>4 DEF Fields, a, b

LEMMA ModRMFields ==
  ASSUME NEW md \in 0..3, NEW r \in 0..15, NEW m \in 0..15
  PROVE  /\ ModRM(md, r, m) \div 64 = md
         /\ (ModRM(md, r, m) \div 8) % 8 = Lo(r)
         /\ ModRM(md, r, m) % 8 = Lo(m)
  <1> DEFINE a == Lo(r)
             b == Lo(m)
  <1>1. a \in 0..7 /\ b \in 0..7 /\ ModRM(md, r, m) = 64 * md + 8 * a + b
    BY HalvesType DEF ModRM
  <1> HIDE DEF a, b
  <1>2. /\ (64 * md + 8 * a + b) \div 64 = md
        /\ ((64 * md + 8 * a + b) \div 8) % 8 = a
        /\ (64 * md + 8 * a + b) % 8 = b
    BY <1>1
  <1>3. QED
    BY <1>1, <1>2 DEF a, b

(* What the operand bytes are read as. *)
Parts(r, rm, next) == [reg |-> r, digit |-> Lo(r), rm |-> rm, next |-> next]

LEMMA OperandReg ==
  ASSUME NEW c, NEW n \in Nat, NEW rex, NEW r \in 0..15, NEW m \in 0..15,
         Fields(rex, r, m), c[n] = ModRM(3, r, m)
  PROVE  Operand(c, n, rex) =
           Parts(r, Reg(m), n + 1)
  <1>1. c[n] \div 64 = 3 /\ (c[n] \div 8) % 8 = Lo(r) /\ c[n] % 8 = Lo(m)
    BY ModRMFields
  <1>2. 8 * ((rex \div 4) % 2) + Lo(r) = r /\ 8 * (rex % 2) + Lo(m) = m
    BY HalvesType DEF Fields
  <1>3. Bit(FALSE) = 0 /\ n + 1 + 0 + 0 = n + 1
    BY DEF Bit
  <1>4. QED
    BY <1>1, <1>2, <1>3 DEF Operand, Parts, Bit

(* The bytes cut from the code where a value lies. *)
LEMMA CutAt ==
  ASSUME NEW c \in Seq(Byte), NEW n \in Nat \ {0}, NEW t, NEW k \in Nat,
         IsCode(t, k), At(c, n, t), n + k - 1 <= Len(c)
  PROVE  Cut(c, n, k) = t
  <1> DEFINE m == n + k - 1
             u == SubSeq(c, n, m)
  <1>1. m \in Nat /\ Len(c) \in Nat
    BY LenProperties
  <1>2. \A i \in n..m : c[i] \in Byte
    BY <1>1, ElementOfSeq
  <1>3. /\ u \in Seq(Byte) /\ Len(u) = IF n <= m THEN m - n + 1 ELSE 0
        /\ \A i \in 1..m - n + 1 : u[i] = c[n + i - 1]
    BY <1>1, <1>2, SubSeqProperties, SMTT(60)
  <1>4. Len(u) = k /\ m - n + 1 = k
    BY <1>3
  <1>5. t \in Seq(Byte) /\ Len(t) = k
    BY DEF IsCode
  <1> HIDE DEF u, m
  <1>6. \A i \in 1..k : u[i] = t[i]
    BY <1>3, <1>4, <1>5 DEF At
  <1>7. u = t
    BY <1>3, <1>4, <1>5, <1>6, SeqEqual
  <1>8. QED
    BY <1>7 DEF u, m, Cut

(* Where the offset of an operand byte at n begins, and its bytes. *)
DispAt(n, m) == n + 1 + Bit(Lo(m) = 4)
DispSize(md) == <<0, 1, 4>>[md + 1]
DispEnd(n, m, md) == DispAt(n, m) + DispSize(md)
DispBytes(c, n, m, md) == Cut(c, DispAt(n, m), DispSize(md))

(* The operand byte at n for [m + offset], and an extra one for RSP and R12. *)
MemForm(c, n, r, m, md) ==
  /\ c[n] = ModRM(md, r, m)
  /\ Lo(m) = 4 => c[n + 1] = 36
  /\ ~(md = 0 /\ Lo(m) = 5)

(* [m + offset], with the offset in as many bytes as md says. *)
LEMMA OperandMemAt ==
  ASSUME NEW c, NEW n \in Nat, NEW rex, NEW r \in 0..15, NEW m \in 0..15,
         NEW md \in 0..2, Fields(rex, r, m), MemForm(c, n, r, m, md)
  PROVE  Operand(c, n, rex) =
           Parts(r, Mem(m, NoIndex, 1, SignExt(DispBytes(c, n, m, md))), DispEnd(n, m, md))
  <1> DEFINE at == DispAt(n, m)
             size == DispSize(md)
             sib == c[n] \div 64 # 3 /\ c[n] % 8 = 4
             low == IF sib THEN c[n + 1] % 8 ELSE c[n] % 8
             index == IF sib THEN 8 * ((rex \div 2) % 2) + ((c[n + 1] \div 8) % 8) ELSE 4
  <1>1. c[n] \div 64 = md /\ (c[n] \div 8) % 8 = Lo(r) /\ c[n] % 8 = Lo(m)
    BY ModRMFields DEF MemForm
  <1>2. 8 * ((rex \div 4) % 2) + Lo(r) = r /\ 8 * (rex % 2) + Lo(m) = m
    BY HalvesType DEF Fields
  <1>3. md # 3 /\ size = IF md = 1 THEN 1 ELSE IF md = 2 THEN 4 ELSE 0
    BY DEF DispSize
  <1>4. 36 % 8 = 4 /\ (36 \div 8) % 8 = 4
    OBVIOUS
  <1>5. sib <=> Lo(m) = 4
    BY <1>1, <1>3
  <1>6. low = Lo(m) /\ index = 4
    <2>1. CASE Lo(m) = 4
      BY <1>1, <1>4, <1>5, <2>1 DEF Fields, MemForm
    <2>2. CASE Lo(m) # 4
      BY <1>1, <1>5, <2>2
    <2>3. QED
      BY <2>1, <2>2
  <1>7. Bit(sib) = Bit(Lo(m) = 4)
    BY <1>5 DEF Bit
  <1>8. /\ (IF c[n] \div 64 = 1 THEN 1
              ELSE IF c[n] \div 64 = 2 \/ (c[n] \div 64 = 0 /\ low = 5) THEN 4 ELSE 0) = size
        /\ (IF c[n] \div 64 = 0 /\ low = 5 THEN NoIndex ELSE 8 * (rex % 2) + low) = m
        /\ (IF sib /\ index # 4 THEN <<1, 2, 4, 8>>[1 + c[n + 1] \div 64] ELSE 1) = 1
        /\ (IF index = 4 THEN NoIndex ELSE index) = NoIndex
        /\ c[n] \div 64 # 3
    BY <1>1, <1>2, <1>3, <1>6 DEF MemForm
  <1>9. n + 1 + Bit(sib) = at
    BY <1>7 DEF DispAt
  <1>10. Operand(c, n, rex) =
           [reg |-> 8 * ((rex \div 4) % 2) + ((c[n] \div 8) % 8), digit |-> (c[n] \div 8) % 8,
            rm |-> Mem(m, NoIndex, 1, SignExt(Cut(c, at, size))),
            next |-> at + size]
    <2> HIDE DEF at, size
    <2>1. QED
      BY <1>8, <1>9, ZenonT(60) DEF Operand, sib, low, index
  <1>11. Operand(c, n, rex) =
           Parts(r, Mem(m, NoIndex, 1, SignExt(Cut(c, at, size))), at + size)
    BY <1>1, <1>2, <1>10 DEF Parts
  <1>12. DispEnd(n, m, md) = at + size /\ DispBytes(c, n, m, md) = Cut(c, at, size)
    BY DEF DispEnd, DispBytes
  <1>13. QED
    <2> HIDE DEF at, size
    <2>1. QED
      BY <1>11, <1>12, Zenon

LEMMA LowBytes ==
  ASSUME NEW v \in Word8, NEW n \in 1..8
  PROVE  /\ Low(v, n) \in Seq(Byte) /\ Len(Low(v, n)) = n
         /\ \A i \in 1..n : Low(v, n)[i] = v[i]
  <1>1. n \in 0..8 /\ n \in Int /\ 1 <= n
    OBVIOUS
  <1>2. IsCode(Low(v, n), n)
    BY <1>1, LowCode
  <1>3. \A i \in 1..n : v[i] \in Byte
    BY DEF Word8
  <1>4. \A i \in 1..n - 1 + 1 : SubSeq(v, 1, n)[i] = v[1 + i - 1]
    BY <1>1, <1>3, SubSeqProperties
  <1>5. \A i \in 1..n : i \in 1..n - 1 + 1 /\ 1 + i - 1 = i
    OBVIOUS
  <1>6. QED
    BY <1>2, <1>4, <1>5 DEF Low, IsCode

(* The value of the lowest n bytes of v, extended with their sign. *)
LEMMA SignLow ==
  ASSUME NEW v \in Word8, NEW n \in 1..8
  PROVE  SignExt(Low(v, n)) = [i \in 1..8 |-> IF i <= n THEN v[i]
                                              ELSE IF v[n] >= 128 THEN 255 ELSE 0]
  <1> DEFINE b == Low(v, n)
  <1>1. b \in Seq(Byte) /\ Len(b) = n /\ \A i \in 1..n : b[i] = v[i]
    BY LowBytes
  <1>2. b # <<>>
    BY <1>1, EmptySeq
  <1> HIDE DEF b
  <1>3. SignExt(b) = [i \in 1..8 |-> IF i <= n THEN v[i]
                                     ELSE IF v[n] >= 128 THEN 255 ELSE 0]
    BY <1>1, <1>2 DEF SignExt
  <1>4. QED
    BY <1>3 DEF b

LEMMA ZeroLow ==
  ASSUME NEW v \in Word8, NEW n \in 1..8
  PROVE  ZeroExt(Low(v, n)) = [i \in 1..8 |-> IF i <= n THEN v[i] ELSE 0]
  <1> DEFINE b == Low(v, n)
  <1>1. b \in Seq(Byte) /\ Len(b) = n /\ \A i \in 1..n : b[i] = v[i]
    BY LowBytes
  <1> HIDE DEF b
  <1>2. ZeroExt(b) = [i \in 1..8 |-> IF i <= n THEN v[i] ELSE 0]
    BY <1>1 DEF ZeroExt
  <1>3. QED
    BY <1>2 DEF b

(* Two values are one if their bytes are. *)
LEMMA SameValue ==
  ASSUME NEW u, NEW v, u = [i \in 1..8 |-> u[i]], v = [i \in 1..8 |-> v[i]],
         \A i \in 1..8 : u[i] = v[i]
  PROVE  u = v
  OBVIOUS

(* v is the value of its n lowest bytes when the others repeat the sign. *)
LEMMA SignFits ==
  ASSUME NEW v \in Word8, NEW n \in 1..8
  PROVE  SignExt(Low(v, n)) = v <=>
           \A i \in (n + 1)..8 : v[i] = IF v[n] >= 128 THEN 255 ELSE 0
  <1> DEFINE u == SignExt(Low(v, n))
  <1>1. u = [i \in 1..8 |-> IF i <= n THEN v[i] ELSE IF v[n] >= 128 THEN 255 ELSE 0]
    BY SignLow
  <1> HIDE DEF u
  <1>2. ASSUME u = v, NEW i \in (n + 1)..8
        PROVE  v[i] = IF v[n] >= 128 THEN 255 ELSE 0
    BY <1>1, <1>2
  <1>3. ASSUME \A i \in (n + 1)..8 : v[i] = IF v[n] >= 128 THEN 255 ELSE 0
        PROVE  u = v
    <2>1. \A i \in 1..8 : u[i] = v[i]
      BY <1>1, <1>3
    <2>2. u = [i \in 1..8 |-> u[i]] /\ v = [i \in 1..8 |-> v[i]]
      BY <1>1 DEF Word8
    <2>3. QED
      BY <2>1, <2>2, SameValue
  <1>4. QED
    BY <1>2, <1>3 DEF u

LEMMA ZeroFits ==
  ASSUME NEW v \in Word8, NEW n \in 1..8, \A i \in (n + 1)..8 : v[i] = 0
  PROVE  ZeroExt(Low(v, n)) = v
  <1> DEFINE u == ZeroExt(Low(v, n))
  <1>1. u = [i \in 1..8 |-> IF i <= n THEN v[i] ELSE 0]
    BY ZeroLow
  <1> HIDE DEF u
  <1>2. \A i \in 1..8 : u[i] = v[i]
    BY <1>1
  <1>3. u = [i \in 1..8 |-> u[i]] /\ v = [i \in 1..8 |-> v[i]]
    BY <1>1 DEF Word8
  <1>4. u = v
    BY <1>2, <1>3, SameValue
  <1>5. QED
    BY <1>4 DEF u

(* A value of n bytes, its top bit 0, is the value of these bytes, and so  *)
(* is its negative.                                                        *)
LEMMA BelowFits ==
  ASSUME NEW v \in Word8, NEW n \in 1..8, Below(v, n, 128)
  PROVE  SignExt(Low(v, n)) = v /\ SignExt(Low(Neg(v), n)) = Neg(v)
  <1>1. v[n] \in 0..127 /\ \A i \in (n + 1)..8 : v[i] = 0
    BY DEF Below, Word8, Byte
  <1>2. SignExt(Low(v, n)) = v
    BY <1>1, SignFits
  <1>3. CASE IsZero(v)
    BY <1>2, <1>3 DEF Neg
  <1>4. CASE ~IsZero(v)
    <2> DEFINE k == FirstSet(v)
               u == Neg(v)
    <2>1. k \in 1..8 /\ v[k] # 0 /\ \A i \in 1..(k - 1) : v[i] = 0
      BY <1>4, FirstSetFacts
    <2>2. u = [i \in 1..8 |-> IF i < k THEN 0 ELSE 255 - v[i] + Bit(i = k)]
      BY <1>4 DEF Neg
    <2>3. u \in Word8
      BY NegType
    <2> HIDE DEF k, u
    <2>4. k \in 1..n
      BY <1>1, <2>1
    <2>5. u[n] = 255 - v[n] + Bit(n = k)
      BY <2>2, <2>4
    <2>6. u[n] >= 128
      BY <1>1, <2>5, BitType
    <2>7. \A i \in (n + 1)..8 : u[i] = 255
      <3> TAKE i \in (n + 1)..8
      <3>1. ~(i < k) /\ Bit(i = k) = 0 /\ v[i] = 0 /\ i \in 1..8
        BY <1>1, <2>4 DEF Bit
      <3>2. QED
        BY <2>2, <3>1
    <2>8. SignExt(Low(u, n)) = u
      BY <2>3, <2>6, <2>7, SignFits
    <2>9. QED
      BY <1>2, <2>8 DEF u
  <1>5. QED
    BY <1>3, <1>4

LEMMA DispFits ==
  ASSUME NEW o, o.v \in Word8
  PROVE  /\ Below7(o.v) => SignExt(Low(Disp(o), 1)) = Disp(o)
         /\ Below31(o.v) => SignExt(Low(Disp(o), 4)) = Disp(o)
  <1>1. Below7(o.v) = Below(o.v, 1, 128) /\ Below31(o.v) = Below(o.v, 4, 128)
    BY Zenon DEF Below7, Below31
  <1>2. 1 \in 1..8 /\ 4 \in 1..8
    OBVIOUS
  <1>3. Disp(o) = o.v \/ Disp(o) = Neg(o.v)
    BY DEF Disp
  <1>4. QED
    BY <1>1, <1>2, <1>3, BelowFits

----------------------------------------------------------------------------
(* Operands in memory.                                                     *)

(* The code from c on, with room behind it. *)
InCode(c, n, t, k) ==
  /\ c \in Seq(Byte) /\ n \in Nat \ {0} /\ k \in Nat
  /\ IsCode(t, k) /\ At(c, n, t) /\ n + k - 1 <= Len(c)

LEMMA InCodeJoin ==
  ASSUME NEW c, NEW n, NEW s, NEW t, NEW k \in Nat, NEW m \in Nat,
         IsCode(s, k), IsCode(t, m), InCode(c, n, s \o t, k + m)
  PROVE  InCode(c, n, s, k) /\ InCode(c, n + k, t, m)
  <1>1. /\ c \in Seq(Byte) /\ n \in Nat \ {0} /\ n \in Nat
        /\ At(c, n, s \o t) /\ n + (k + m) - 1 <= Len(c) /\ Len(c) \in Nat
    BY LenProperties DEF InCode
  <1>2. At(c, n, s) /\ At(c, n + k, t)
    BY <1>1, AtJoin
  <1>3. n + k \in Nat \ {0} /\ n + k - 1 <= Len(c) /\ (n + k) + m - 1 <= Len(c)
    BY <1>1
  <1>4. QED
    BY <1>1, <1>2, <1>3 DEF InCode

LEMMA InCodeCut ==
  ASSUME NEW c, NEW n, NEW t, NEW k, InCode(c, n, t, k)
  PROVE  Cut(c, n, k) = t
  BY CutAt DEF InCode

LEMMA ZeroBytes ==
  SignExt(<<>>) = Zero /\ SignExt(<<0>>) = Zero
  <1>1. SignExt(<<>>) = [i \in 1..8 |-> 0]
    BY DEF SignExt
  <1>2. SignExt(<<0>>) = [i \in 1..8 |-> 0]
    BY DEF SignExt
  <1>3. Zero = [i \in 1..8 |-> 0]
    BY DEF Zero, ZeroExt
  <1>4. QED
    BY <1>1, <1>2, <1>3

LEMMA OperandPlain ==
  ASSUME NEW c, NEW n, NEW rex, NEW r \in 0..15, NEW o, o.r \in 0..15,
         Fields(rex, r, o.r), NEW k, InCode(c, n, Plain(r, o), k)
  PROVE  Operand(c, n, rex) =
           Parts(r, Mem(o.r, NoIndex, 1, Zero), n + k)
  <1>1. n \in Nat /\ At(c, n, Plain(r, o)) /\ n # 0 /\ c \in Seq(Byte)
    BY DEF InCode
  <1>2. k = 1 + Bit(Lo(o.r) \in {4, 5})
    BY PlainCode DEF InCode, IsCode
  <1>3. CASE Lo(o.r) = 4
    <2>1. Plain(r, o) = <<ModRM(0, r, o.r), 36>> /\ k = 2
      BY <1>2, <1>3 DEF Plain, Bit
    <2>2. c[n] = ModRM(0, r, o.r) /\ c[n + 1] = 36
      BY <1>1, <2>1, AtTwo
    <2>3. DispAt(n, o.r) = n + 2 /\ DispSize(0) = 0 /\ n + 2 + 0 = n + k
      BY <1>1, <1>3, <2>1 DEF DispAt, DispSize, Bit
    <2>4. Cut(c, n + 2, 0) = <<>>
      BY <1>1, SubSeqEmpty DEF Cut
    <2>5. 0 \in 0..2 /\ MemForm(c, n, r, o.r, 0)
      BY <1>3, <2>2 DEF MemForm
    <2>6. DispBytes(c, n, o.r, 0) = <<>> /\ DispEnd(n, o.r, 0) = n + k
      <3>1. DispEnd(n, o.r, 0) = n + k
        BY <1>1, <2>3 DEF DispEnd
      <3>2. QED
        BY <2>3, <2>4, <3>1, Zenon DEF DispBytes
    <2>7. Operand(c, n, rex) =
            Parts(r, Mem(o.r, NoIndex, 1, SignExt(DispBytes(c, n, o.r, 0))), DispEnd(n, o.r, 0))
      BY <1>1, <2>5, OperandMemAt, SMTT(60)
    <2>8. QED
      BY <2>6, <2>7, ZeroBytes, Zenon
  <1>4. CASE Lo(o.r) = 5
    <2>1. Plain(r, o) = <<ModRM(1, r, o.r), 0>> /\ k = 2
      BY <1>2, <1>4 DEF Plain, Bit
    <2>2. c[n] = ModRM(1, r, o.r) /\ c[n + 1] = 0
      BY <1>1, <2>1, AtTwo
    <2>3. DispAt(n, o.r) = n + 1 /\ DispSize(1) = 1 /\ n + 1 + 1 = n + k
      BY <1>1, <1>4, <2>1 DEF DispAt, DispSize, Bit
    <2>4. Cut(c, n + 1, 1) = <<0>>
      <3>1. IsCode(<<0>>, 1) /\ At(c, n + 1, <<0>>)
        <4>1. At(c, n + 1, <<0>>)
          BY <1>1, <2>2 DEF At
        <4>2. 0 \in Byte
          BY DEF Byte
        <4>3. QED
          BY <4>1, <4>2, OneCode
      <3>2. n + 1 \in Nat \ {0} /\ 1 \in Nat /\ (n + 1) + 1 - 1 <= Len(c)
        BY <1>1, <2>1 DEF InCode
      <3>3. QED
        BY <1>1, <3>1, <3>2, CutAt
    <2>5. 1 \in 0..2 /\ MemForm(c, n, r, o.r, 1)
      BY <1>4, <2>2 DEF MemForm
    <2>6. DispBytes(c, n, o.r, 1) = <<0>> /\ DispEnd(n, o.r, 1) = n + k
      <3>1. DispEnd(n, o.r, 1) = n + k
        BY <1>1, <2>3 DEF DispEnd
      <3>2. QED
        BY <2>3, <2>4, <3>1, Zenon DEF DispBytes
    <2>7. Operand(c, n, rex) =
            Parts(r, Mem(o.r, NoIndex, 1, SignExt(DispBytes(c, n, o.r, 1))), DispEnd(n, o.r, 1))
      BY <1>1, <2>5, OperandMemAt, SMTT(60)
    <2>8. QED
      BY <2>6, <2>7, ZeroBytes, Zenon
  <1>5. CASE Lo(o.r) \notin {4, 5}
    <2>1. Plain(r, o) = <<ModRM(0, r, o.r)>> /\ k = 1
      BY <1>2, <1>5 DEF Plain, Bit
    <2>2. c[n] = ModRM(0, r, o.r)
      BY <1>1, <2>1, AtOne
    <2>3. DispAt(n, o.r) = n + 1 /\ DispSize(0) = 0 /\ n + 1 + 0 = n + k
      BY <1>1, <1>5, <2>1 DEF DispAt, DispSize, Bit
    <2>4. Cut(c, n + 1, 0) = <<>>
      BY <1>1, SubSeqEmpty DEF Cut
    <2>5. 0 \in 0..2 /\ MemForm(c, n, r, o.r, 0)
      BY <1>5, <2>2 DEF MemForm
    <2>6. DispBytes(c, n, o.r, 0) = <<>> /\ DispEnd(n, o.r, 0) = n + k
      <3>1. DispEnd(n, o.r, 0) = n + k
        BY <1>1, <2>3 DEF DispEnd
      <3>2. QED
        BY <2>3, <2>4, <3>1, Zenon DEF DispBytes
    <2>7. Operand(c, n, rex) =
            Parts(r, Mem(o.r, NoIndex, 1, SignExt(DispBytes(c, n, o.r, 0))), DispEnd(n, o.r, 0))
      BY <1>1, <2>5, OperandMemAt, SMTT(60)
    <2>8. QED
      BY <2>6, <2>7, ZeroBytes, Zenon
  <1>6. QED
    BY <1>3, <1>4, <1>5

(* An operand of a register byte, perhaps one for RSP or R12, and an       *)
(* offset d of as many bytes as md says.                                   *)
OffsetForm(c, n, r, o, md, d, k) ==
  /\ md \in 0..2 /\ ~(md = 0 /\ Lo(o.r) = 5) /\ IsCode(d, DispSize(md))
  /\ k = 1 + Bit(Lo(o.r) = 4) + DispSize(md)
  /\ InCode(c, n, <<ModRM(md, r, o.r)>> \o Sib(o) \o d, k)

LEMMA OperandOffset ==
  ASSUME NEW c, NEW n, NEW rex, NEW r \in 0..15, NEW o, o.r \in 0..15,
         Fields(rex, r, o.r), NEW md, NEW d, NEW k, OffsetForm(c, n, r, o, md, d, k)
  PROVE  Operand(c, n, rex) = Parts(r, Mem(o.r, NoIndex, 1, SignExt(d)), n + k)
  <1>0. /\ md \in 0..2 /\ ~(md = 0 /\ Lo(o.r) = 5) /\ IsCode(d, DispSize(md))
        /\ k = 1 + Bit(Lo(o.r) = 4) + DispSize(md)
        /\ InCode(c, n, <<ModRM(md, r, o.r)>> \o Sib(o) \o d, k)
    BY DEF OffsetForm
  <1> DEFINE size == DispSize(md)
             s == Bit(Lo(o.r) = 4)
             a == <<ModRM(md, r, o.r)>>
  <1>1. s \in Nat /\ size \in Nat /\ 1 \in Nat /\ 1 + s \in Nat
    BY <1>0, BitType DEF DispSize
  <1>2. IsCode(a, 1) /\ IsCode(Sib(o), s)
    <2>1. md \in 0..3
      BY <1>0
    <2>2. QED
      BY <2>1, ModRMType, OneCode, SibCode
  <1>3. IsCode(a \o Sib(o), 1 + s)
    BY <1>1, <1>2, JoinCode
  <1> HIDE DEF a, s, size
  <1>4. InCode(c, n, a \o Sib(o), 1 + s) /\ InCode(c, n + (1 + s), d, size)
    BY <1>0, <1>1, <1>3, InCodeJoin DEF a, s, size
  <1>5. InCode(c, n, a, 1) /\ InCode(c, n + 1, Sib(o), s)
    BY <1>1, <1>2, <1>4, InCodeJoin DEF s, size
  <1>6. n \in Nat /\ c[n] = ModRM(md, r, o.r)
    BY <1>5, AtOne DEF InCode, a
  <1>7. Lo(o.r) = 4 => c[n + 1] = 36
    <2> SUFFICES ASSUME Lo(o.r) = 4 PROVE c[n + 1] = 36
      OBVIOUS
    <2>1. Sib(o) = <<36>>
      BY DEF Sib, Prefix
    <2>2. QED
      BY <1>5, <1>6, <2>1, AtOne DEF InCode
  <1> DEFINE at == n + 1 + s
  <1>8. at = n + (1 + s) /\ at + size = n + (1 + s + size)
    BY <1>1, <1>6
  <1>9. Cut(c, at, size) = d
    BY <1>4, <1>8, InCodeCut
  <1>10. at = DispAt(n, o.r)
    BY DEF DispAt, s
  <1> HIDE DEF at
  <1>11. MemForm(c, n, r, o.r, md)
    BY <1>0, <1>6, <1>7 DEF MemForm
  <1>13. DispBytes(c, n, o.r, md) = d /\ DispEnd(n, o.r, md) = n + (1 + s + size)
    <2>1. DispEnd(n, o.r, md) = at + size
      BY <1>10, Zenon DEF DispEnd, size
    <2>2. DispBytes(c, n, o.r, md) = Cut(c, at, size)
      BY <1>10, Zenon DEF DispBytes, size
    <2>3. QED
      BY <1>8, <1>9, <2>1, <2>2
  <1>6a. n \in Nat
    BY <1>6
  <1>12. md \in 0..2
    BY <1>0
  <1>14. Operand(c, n, rex) =
           Parts(r, Mem(o.r, NoIndex, 1, SignExt(DispBytes(c, n, o.r, md))), DispEnd(n, o.r, md))
    BY <1>6a, <1>11, <1>12, OperandMemAt, SMTT(60)
  <1>15. QED
    BY <1>0, <1>13, <1>14, Zenon DEF s, size

(* [reg + offset] written to, with an offset of no more than 31 bits. *)
LEMMA OperandStore ==
  ASSUME NEW c, NEW n, NEW rex, NEW r \in 0..15, NEW o, o.r \in 0..15, o.v \in Word8,
         Below31(o.v), Fields(rex, r, o.r), NEW k, InCode(c, n, Store(r, o), k)
  PROVE  Operand(c, n, rex) = Parts(r, Mem(o.r, NoIndex, 1, Disp(o)), n + k)
  <1> DEFINE md == 1 + Bit(~Below7(o.v))
             d == Low(Disp(o), IF Below7(o.v) THEN 1 ELSE 4)
  <1>1. md \in 0..2 /\ md # 0 /\ DispSize(md) = IF Below7(o.v) THEN 1 ELSE 4
    BY BelowFacts DEF Bit, DispSize
  <1>2. IsCode(d, DispSize(md))
    <2>1. DispSize(md) \in 0..8 /\ Disp(o) \in Word8
      BY <1>1, DispType
    <2>2. QED
      BY <1>1, <2>1, LowCode
  <1>3. SignExt(d) = Disp(o)
    BY DispFits
  <1>4. Store(r, o) = <<ModRM(md, r, o.r)>> \o Sib(o) \o d
    BY DEF Store
  <1>5. k = 1 + Bit(Lo(o.r) = 4) + DispSize(md)
    <2>1. k = 2 + 3 * Bit(~Below7(o.v)) + Bit(Lo(o.r) = 4)
      BY StoreCode DEF InCode, IsCode
    <2>2. DispSize(md) = 1 + 3 * Bit(~Below7(o.v))
      BY <1>1, BelowFacts DEF Bit
    <2> HIDE DEF md
    <2>3. QED
      BY <2>1, <2>2, BitType
  <1> HIDE DEF md, d
  <1>6. OffsetForm(c, n, r, o, md, d, k)
    BY <1>1, <1>2, <1>4, <1>5 DEF OffsetForm
  <1>7. Operand(c, n, rex) = Parts(r, Mem(o.r, NoIndex, 1, SignExt(d)), n + k)
    BY <1>6, OperandOffset
  <1>8. QED
    BY <1>3, <1>7

(* The offset read where Load was written. *)
LoadDisp(o) ==
  IF IsZero(o.v) THEN IF Lo(o.r) = 5 THEN SignExt(<<junk>>) ELSE Zero
  ELSE SignExt(Low(Disp(o), OfstSz(o)))

LEMMA OperandLoad ==
  ASSUME junk \in Byte, NEW c, NEW n, NEW rex, NEW r \in 0..15, NEW o, o.r \in 0..15,
         o.v \in Word8, Fields(rex, r, o.r), NEW k, InCode(c, n, Load(r, o), k)
  PROVE  Operand(c, n, rex) = Parts(r, Mem(o.r, NoIndex, 1, LoadDisp(o)), n + k)
  <1> DEFINE md == Bit(OfstSz(o) > 0) + Bit(~Below7(o.v))
             d == IF IsZero(o.v) THEN Prefix(Lo(o.r) = 5, junk) ELSE Low(Disp(o), OfstSz(o))
  <1>1. /\ OfstSz(o) \in 0..4
        /\ IsZero(o.v) => OfstSz(o) = Bit(Lo(o.r) = 5) /\ Below7(o.v)
        /\ ~IsZero(o.v) => OfstSz(o) = 1 + 3 * Bit(~Below7(o.v))
    BY OfstSzType, BelowFacts
  <1>2. md \in 0..2 /\ DispSize(md) = OfstSz(o) /\ ~(md = 0 /\ Lo(o.r) = 5)
    <2>1. CASE IsZero(o.v)
      BY <1>1, <2>1 DEF Bit, DispSize
    <2>2. CASE ~IsZero(o.v)
      BY <1>1, <2>2 DEF Bit, DispSize
    <2>3. QED
      BY <2>1, <2>2
  <1>3. IsCode(d, OfstSz(o))
    <2>1. CASE IsZero(o.v)
      BY <1>1, <2>1, PrefixCode
    <2>2. CASE ~IsZero(o.v)
      BY <1>1, <2>2, DispType, LowCode
    <2>3. QED
      BY <2>1, <2>2
  <1>4. SignExt(d) = LoadDisp(o)
    <2>1. CASE IsZero(o.v) /\ Lo(o.r) = 5
      BY <2>1 DEF Prefix, LoadDisp
    <2>2. CASE IsZero(o.v) /\ Lo(o.r) # 5
      BY <2>2, ZeroBytes DEF Prefix, LoadDisp
    <2>3. CASE ~IsZero(o.v)
      BY <2>3 DEF LoadDisp
    <2>4. QED
      BY <2>1, <2>2, <2>3
  <1>5. Load(r, o) = <<ModRM(md, r, o.r)>> \o Sib(o) \o d
    BY DEF Load
  <1>6. k = 1 + Bit(Lo(o.r) = 4) + OfstSz(o)
    BY LoadCode DEF InCode, IsCode
  <1> HIDE DEF md, d
  <1>7. OffsetForm(c, n, r, o, md, d, k)
    BY <1>2, <1>3, <1>5, <1>6 DEF OffsetForm
  <1>8. Operand(c, n, rex) = Parts(r, Mem(o.r, NoIndex, 1, SignExt(d)), n + k)
    BY <1>7, OperandOffset
  <1>9. QED
    BY <1>4, <1>8

(* It is the offset but for the two forms of Misencoded. *)
LEMMA LoadDispRight ==
  ASSUME junk \in Byte, NEW o, o.r \in 0..15, o.v \in Word8
  PROVE  LoadDisp(o) = Disp(o) <=>
           ~(IsZero(o.v) /\ Lo(o.r) = 5 /\ junk # 0) /\ Fits32(Disp(o))
  <1>1. CASE IsZero(o.v)
    <2>1. Disp(o) = Zero
      <3>1. Disp(o) = o.v
        BY <1>1 DEF Disp, Neg
      <3>2. Zero = [i \in 1..8 |-> 0] /\ o.v = [i \in 1..8 |-> o.v[i]]
        BY DEF Zero, ZeroExt, Word8
      <3>3. QED
        BY <1>1, <3>1, <3>2, SameValue DEF IsZero
    <2>2. Fits32(Disp(o))
      <3>1. Below31(o.v)
        BY <1>1 DEF Below31, Below, IsZero
      <3>2. QED
        BY <3>1, DispFits DEF Fits32
    <2>3. CASE Lo(o.r) # 5
      BY <1>1, <2>1, <2>2, <2>3 DEF LoadDisp
    <2>4. CASE Lo(o.r) = 5
      <3>1. LoadDisp(o) = SignExt(<<junk>>)
        BY <1>1, <2>4 DEF LoadDisp
      <3>2. SignExt(<<junk>>)[1] = junk /\ Zero[1] = 0
        BY DEF SignExt, Zero, ZeroExt
      <3>3. junk = 0 => SignExt(<<junk>>) = Zero
        BY ZeroBytes
      <3>4. QED
        BY <1>1, <2>1, <2>2, <2>4, <3>1, <3>2, <3>3
    <2>5. QED
      BY <2>3, <2>4
  <1>2. CASE ~IsZero(o.v) /\ Below7(o.v)
    <2>1. OfstSz(o) = 1
      BY <1>2, OfstSzType DEF Bit
    <2>2. Below31(o.v)
      BY <1>2 DEF Below7, Below31, Below, Word8, Byte
    <2>3. LoadDisp(o) = Disp(o) /\ Fits32(Disp(o))
      BY <1>2, <2>1, <2>2, DispFits DEF LoadDisp, Fits32
    <2>4. QED
      BY <1>2, <2>3
  <1>3. CASE ~IsZero(o.v) /\ ~Below7(o.v)
    <2>1. OfstSz(o) = 4
      BY <1>3, OfstSzType
    <2>2. QED
      BY <1>3, <2>1 DEF LoadDisp, Fits32
  <1>4. QED
    BY <1>1, <1>2, <1>3

(* [reg + factor * reg] *)
IndexedTail(r, o) ==
  <<ModRM(Bit(Lo(o.r) = 5), r, 4), ModRM(Log2(o.f), o.x, o.r)>> \o Prefix(Lo(o.r) = 5, 0)

IndexRead(o) == Mem(o.r, IF Lo(o.x) = 4 THEN NoIndex ELSE Lo(o.x),
                    IF Lo(o.x) = 4 THEN 1 ELSE o.f, Zero)

LEMMA IndexedTailCode ==
  ASSUME NEW r \in 0..15, NEW o, o.r \in 0..15, o.x \in 0..15
  PROVE  IsCode(IndexedTail(r, o), 2 + Bit(Lo(o.r) = 5))
  <1> DEFINE m == Bit(Lo(o.r) = 5)
  <1>1. m \in 0..3 /\ m \in Nat /\ Log2(o.f) \in 0..3 /\ 2 \in Nat /\ 4 \in 0..15
    BY BitType DEF Log2, Bit
  <1>2. 0 \in Byte
    BY DEF Byte
  <1>3. ModRM(m, r, 4) \in Byte /\ ModRM(Log2(o.f), o.x, o.r) \in Byte
    BY <1>1, ModRMType
  <1>4. /\ IsCode(<<ModRM(m, r, 4), ModRM(Log2(o.f), o.x, o.r)>>, 2)
        /\ IsCode(Prefix(Lo(o.r) = 5, 0), m)
    BY <1>2, <1>3, TwoCode, PrefixCode
  <1>5. QED
    BY <1>1, <1>4, JoinCode DEF IndexedTail

LEMMA OperandIndexed ==
  ASSUME NEW c, NEW n, NEW rex, NEW r \in 0..15, NEW o, o.r \in 0..15, o.x \in 0..15,
         o.f \in {1, 2, 4, 8}, Fields(rex, r, o.r), NEW k, InCode(c, n, IndexedTail(r, o), k)
  PROVE  Operand(c, n, rex) = Parts(r, IndexRead(o), n + k)
  <1> DEFINE md == Bit(Lo(o.r) = 5)
             a == <<ModRM(md, r, 4), ModRM(Log2(o.f), o.x, o.r)>>
             d == Prefix(Lo(o.r) = 5, 0)
  <1>1. /\ md \in 0..1 /\ md \in Nat /\ md \in 0..3 /\ Log2(o.f) \in 0..3
        /\ 4 \in 0..15 /\ 2 \in Nat
        /\ <<1, 2, 4, 8>>[1 + Log2(o.f)] = o.f
        /\ md = 0 <=> Lo(o.r) # 5
    BY BitType DEF Log2, Bit
  <1>2. IsCode(d, md)
    <2>1. 0 \in Byte
      BY DEF Byte
    <2>2. QED
      BY <2>1, PrefixCode
  <1>2a. IsCode(a, 2)
    <2>1. ModRM(md, r, 4) \in Byte /\ ModRM(Log2(o.f), o.x, o.r) \in Byte
      BY <1>1, ModRMType
    <2>2. QED
      BY <2>1, TwoCode
  <1>3. k = 2 + md
    BY IndexedTailCode DEF InCode, IsCode
  <1>4. SignExt(d) = Zero
    BY ZeroBytes DEF Prefix
  <1>5. IndexedTail(r, o) = a \o d
    BY DEF IndexedTail
  <1> HIDE DEF md, d, a
  <1>6. InCode(c, n, a, 2) /\ InCode(c, n + 2, d, md)
    BY <1>1, <1>2, <1>2a, <1>3, <1>5, InCodeJoin
  <1>7. n \in Nat /\ c[n] = ModRM(md, r, 4) /\ c[n + 1] = ModRM(Log2(o.f), o.x, o.r)
    BY <1>6, AtTwo DEF InCode, a
  <1>8. /\ c[n] \div 64 = md /\ (c[n] \div 8) % 8 = Lo(r) /\ c[n] % 8 = 4
        /\ c[n + 1] \div 64 = Log2(o.f) /\ (c[n + 1] \div 8) % 8 = Lo(o.x)
        /\ c[n + 1] % 8 = Lo(o.r)
    <2>1. Lo(4) = 4
      BY DEF Lo
    <2>2. QED
      BY <1>1, <1>7, <2>1, ModRMFields, SMTT(60)
  <1>9. 8 * ((rex \div 4) % 2) + Lo(r) = r /\ 8 * (rex % 2) + Lo(o.r) = o.r /\ (rex \div 2) % 2 = 0
    BY HalvesType DEF Fields
  <1>10. Cut(c, n + 2, md) = d
    BY <1>6, InCodeCut
  <1> DEFINE sib == c[n] \div 64 # 3 /\ c[n] % 8 = 4
             low == IF sib THEN c[n + 1] % 8 ELSE c[n] % 8
             x == IF sib THEN 8 * ((rex \div 2) % 2) + ((c[n + 1] \div 8) % 8) ELSE 4
  <1>11. sib /\ low = Lo(o.r) /\ x = Lo(o.x)
    <2>1. sib
      BY <1>1, <1>8
    <2>2. Lo(o.x) \in 0..7
      BY HalvesType
    <2>3. QED
      BY <1>8, <1>9, <2>1, <2>2
  <1> DEFINE ix == IF Lo(o.x) = 4 THEN NoIndex ELSE Lo(o.x)
             fac == IF Lo(o.x) = 4 THEN 1 ELSE o.f
  <1>12. /\ (IF c[n] \div 64 = 1 THEN 1
               ELSE IF c[n] \div 64 = 2 \/ (c[n] \div 64 = 0 /\ low = 5) THEN 4 ELSE 0) = md
         /\ (IF c[n] \div 64 = 0 /\ low = 5 THEN NoIndex ELSE 8 * (rex % 2) + low) = o.r
         /\ (IF sib /\ x # 4 THEN <<1, 2, 4, 8>>[1 + c[n + 1] \div 64] ELSE 1) = fac
         /\ (IF x = 4 THEN NoIndex ELSE x) = ix
         /\ c[n] \div 64 # 3 /\ n + 1 + Bit(sib) = n + 2
    <2>1. Bit(sib) = 1
      BY <1>11 DEF Bit
    <2> HIDE DEF sib, low, x
    <2>2. (IF c[n] \div 64 = 1 THEN 1
           ELSE IF c[n] \div 64 = 2 \/ (c[n] \div 64 = 0 /\ low = 5) THEN 4 ELSE 0) = md
      BY <1>1, <1>8, <1>11
    <2>3. (IF c[n] \div 64 = 0 /\ low = 5 THEN NoIndex ELSE 8 * (rex % 2) + low) = o.r
      BY <1>1, <1>8, <1>9, <1>11
    <2>4. (IF sib /\ x # 4 THEN <<1, 2, 4, 8>>[1 + c[n + 1] \div 64] ELSE 1) = fac
      BY <1>1, <1>8, <1>11
    <2>5. (IF x = 4 THEN NoIndex ELSE x) = ix
      BY <1>11
    <2>6. c[n] \div 64 # 3 /\ n + 1 + Bit(sib) = n + 2
      BY <1>1, <1>7, <1>8, <2>1
    <2>7. QED
      BY <2>2, <2>3, <2>4, <2>5, <2>6
  <1>13. Operand(c, n, rex) =
           [reg |-> 8 * ((rex \div 4) % 2) + ((c[n] \div 8) % 8), digit |-> (c[n] \div 8) % 8,
            rm |-> Mem(o.r, ix, fac, SignExt(Cut(c, n + 2, md))), next |-> n + 2 + md]
    <2> HIDE DEF ix, fac
    <2>1. QED
      BY <1>12, ZenonT(60) DEF Operand, sib, low, x
  <1>14. n + 2 + md = n + k
    BY <1>1, <1>3, <1>7
  <1>15. IndexRead(o) = Mem(o.r, IF Lo(o.x) = 4 THEN NoIndex ELSE Lo(o.x),
                            IF Lo(o.x) = 4 THEN 1 ELSE o.f, SignExt(Cut(c, n + 2, md)))
    BY <1>4, <1>10 DEF IndexRead
  <1>16. QED
    BY <1>8, <1>9, <1>13, <1>14, <1>15 DEF Parts

LEMMA IndexReadRight ==
  ASSUME NEW o, o.x \in 0..15, o.x # 4
  PROVE  IndexRead(o) = Mem(o.r, o.x, o.f, Zero) <=> ~(o.x >= 8)
  <1>1. CASE o.x < 8
    BY <1>1 DEF IndexRead, Lo
  <1>2. CASE o.x >= 8
    <2>1. IndexRead(o).x # o.x
      BY <1>2 DEF IndexRead, Mem, Lo, NoIndex
    <2>2. QED
      BY <1>2, <2>1 DEF Mem
  <1>3. QED
    BY <1>1, <1>2

----------------------------------------------------------------------------
(* Prefix and opcode of a whole instruction.                               *)

LeadOf(p, rex, o, n) == [p |-> p, rex |-> rex, o |-> o, n |-> n]

(* The instruction e is read with this prefix and opcode, and with its     *)
(* other n bytes, t, from m on.                                            *)
Opens(e, p, rex, o, m, t, n) ==
  \E c : InCode(c, m, t, n) /\ Decode(e) = Reading(LeadOf(p, rex, o, m), c, m + n - 1)

LEMMA OpensRest ==
  ASSUME NEW s, NEW k \in Nat, IsCode(s, k), NEW t, NEW n \in Nat, IsCode(t, n)
  PROVE  /\ InCode(Padded(s \o t), 1, s, k) /\ InCode(Padded(s \o t), k + 1, t, n)
         /\ Len(s \o t) = k + n
         /\ Decode(s \o t) = Reading(Lead(Padded(s \o t)), Padded(s \o t), k + n)
         /\ \A i \in 1..(k + n + 16) : Padded(s \o t)[i] \in Byte
  <1> DEFINE e == s \o t
             c == Padded(e)
  <1>1. IsCode(e, k + n) /\ k + n \in Nat
    BY JoinCode
  <1> HIDE DEF e
  <1>2. At(c, 1, e) /\ Len(e) = k + n /\ \A i \in 1..(k + n + 16) : c[i] \in Byte
    BY <1>1, PaddedFacts
  <1>3. c \in Seq(Byte) /\ Len(c) = k + n + 16
    <2> DEFINE z == [i \in 1..16 |-> 0]
    <2>1. IsCode(z, 16) /\ 16 \in Nat
      BY ZerosCode
    <2> HIDE DEF z
    <2>2. IsCode(e \o z, (k + n) + 16)
      BY <1>1, <2>1, JoinCode
    <2>3. QED
      BY <2>2 DEF IsCode, Padded, z
  <1>4. 1 + (k + n) - 1 <= k + n + 16 /\ 1 \in Nat \ {0}
    BY <1>1
  <1> HIDE DEF c
  <1>5. InCode(c, 1, e, k + n)
    BY <1>1, <1>2, <1>3, <1>4 DEF InCode
  <1>6. InCode(c, 1, s, k) /\ InCode(c, 1 + k, t, n)
    BY <1>5, InCodeJoin DEF e
  <1>7. 1 + k = k + 1
    OBVIOUS
  <1>8. Decode(e) = Reading(Lead(c), c, k + n)
    BY <1>2, Zenon DEF Decode, c
  <1>9. QED
    BY <1>2, <1>6, <1>7, <1>8 DEF e, c

LEMMA OpensBare ==
  ASSUME NEW o \in Byte, o \notin 64..79, o # 15, NEW t, NEW n \in Nat, IsCode(t, n)
  PROVE  Opens(<<o>> \o t, 0, 0, o, 2, t, n)
  <1> DEFINE c == Padded(<<o>> \o t)
  <1>1. IsCode(<<o>>, 1) /\ 1 \in Nat
    BY OneCode
  <1>2. /\ InCode(c, 1, <<o>>, 1) /\ InCode(c, 1 + 1, t, n)
        /\ Decode(<<o>> \o t) = Reading(Lead(c), c, 1 + n)
    BY <1>1, OpensRest
  <1> HIDE DEF c
  <1>3. c[1] = o
    BY <1>2, AtOne DEF InCode
  <1>4. Lead(c) = LeadOf(0, 0, o, 2)
    BY <1>3, LeadBare DEF LeadOf
  <1>5. 1 + n = 2 + n - 1 /\ 1 + 1 = 2
    OBVIOUS
  <1>6. QED
    BY <1>2, <1>4, <1>5 DEF Opens

LEMMA OpensPrefixed ==
  ASSUME NEW b \in 64..79, NEW o \in Byte, o # 15, NEW t, NEW n \in Nat, IsCode(t, n)
  PROVE  Opens(<<b, o>> \o t, 1, b - 64, o, 3, t, n)
  <1> DEFINE c == Padded(<<b, o>> \o t)
  <1>1. IsCode(<<b, o>>, 2) /\ 2 \in Nat
    <2>1. b \in Byte
      BY DEF Byte
    <2>2. QED
      BY <2>1, TwoCode
  <1>2. /\ InCode(c, 1, <<b, o>>, 2) /\ InCode(c, 2 + 1, t, n)
        /\ Decode(<<b, o>> \o t) = Reading(Lead(c), c, 2 + n)
    BY <1>1, OpensRest
  <1> HIDE DEF c
  <1>3. c[1] = b /\ c[2] = o
    <2>1. c[1] = b /\ c[1 + 1] = o
      BY <1>2, AtTwo DEF InCode
    <2>2. QED
      BY <2>1
  <1>4. Lead(c) = LeadOf(1, b - 64, o, 3)
    BY <1>3, LeadPrefixed DEF LeadOf
  <1>5. 2 + n = 3 + n - 1 /\ 2 + 1 = 3
    OBVIOUS
  <1>6. QED
    BY <1>2, <1>4, <1>5 DEF Opens

LEMMA OpensBareTwo ==
  ASSUME NEW o \in Byte, NEW t, NEW n \in Nat, IsCode(t, n)
  PROVE  Opens(<<15, o>> \o t, 0, 0, 256 + o, 3, t, n)
  <1> DEFINE c == Padded(<<15, o>> \o t)
  <1>1. IsCode(<<15, o>>, 2) /\ 2 \in Nat
    <2>1. 15 \in Byte
      BY DEF Byte
    <2>2. QED
      BY <2>1, TwoCode
  <1>2. /\ InCode(c, 1, <<15, o>>, 2) /\ InCode(c, 2 + 1, t, n)
        /\ Decode(<<15, o>> \o t) = Reading(Lead(c), c, 2 + n)
    BY <1>1, OpensRest
  <1> HIDE DEF c
  <1>3. c[1] = 15 /\ c[2] = o
    <2>1. c[1] = 15 /\ c[1 + 1] = o
      BY <1>2, AtTwo DEF InCode
    <2>2. QED
      BY <2>1
  <1>4. Lead(c) = LeadOf(0, 0, 256 + o, 3)
    BY <1>3, LeadBareTwo DEF LeadOf
  <1>5. 2 + n = 3 + n - 1 /\ 2 + 1 = 3
    OBVIOUS
  <1>6. QED
    BY <1>2, <1>4, <1>5 DEF Opens

LEMMA OpensPrefixedTwo ==
  ASSUME NEW b \in 64..79, NEW o \in Byte, NEW t, NEW n \in Nat, IsCode(t, n)
  PROVE  Opens(<<b, 15, o>> \o t, 1, b - 64, 256 + o, 4, t, n)
  <1> DEFINE c == Padded(<<b, 15, o>> \o t)
  <1>1. IsCode(<<b, 15, o>>, 3) /\ 3 \in Nat
    <2>1. 15 \in Byte /\ b \in Byte
      BY DEF Byte
    <2>2. QED
      BY <2>1, ThreeCode
  <1>2. /\ InCode(c, 1, <<b, 15, o>>, 3) /\ InCode(c, 3 + 1, t, n)
        /\ Decode(<<b, 15, o>> \o t) = Reading(Lead(c), c, 3 + n)
    BY <1>1, OpensRest
  <1> HIDE DEF c
  <1>3. c[1] = b /\ c[2] = 15 /\ c[3] = o
    <2>1. c[1] = b /\ c[1 + 1] = 15 /\ c[1 + 2] = o
      BY <1>2, AtThree DEF InCode
    <2>2. QED
      BY <2>1
  <1>4. Lead(c) = LeadOf(1, b - 64, 256 + o, 4)
    BY <1>3, LeadPrefixedTwo DEF LeadOf
  <1>5. 3 + n = 4 + n - 1 /\ 3 + 1 = 4
    OBVIOUS
  <1>6. QED
    BY <1>2, <1>4, <1>5 DEF Opens

LEMMA NoneJoined ==
  ASSUME NEW t, NEW n \in Nat, IsCode(t, n)
  PROVE  <<>> \o t = t /\ t \o <<>> = t
  <1>1. t \in Seq(Byte) /\ <<>> \in Seq(Byte)
    BY DEF IsCode
  <1>2. QED
    BY <1>1, ConcatEmptySeq

LEMMA TwoJoined ==
  ASSUME NEW a \in Byte, NEW b \in Byte
  PROVE  <<a>> \o <<b>> = <<a, b>>
  <1> DEFINE s == <<a>> \o <<b>>
             t == <<a, b>>
  <1>1. <<a>> \in Seq(Byte) /\ <<b>> \in Seq(Byte) /\ Len(<<a>>) = 1 /\ Len(<<b>>) = 1
    OBVIOUS
  <1>2. /\ s \in Seq(Byte) /\ Len(s) = 2
        /\ \A i \in 1..2 : s[i] = IF i <= 1 THEN <<a>>[i] ELSE <<b>>[i - 1]
    BY <1>1, ConcatProperties
  <1>3. /\ t \in Seq(Byte) /\ Len(t) = 2
        /\ \A i \in 1..2 : t[i] = IF i <= 1 THEN <<a>>[i] ELSE <<b>>[i - 1]
    OBVIOUS
  <1> HIDE DEF s, t
  <1>4. s = t
    BY <1>2, <1>3, SeqEqual
  <1>5. QED
    BY <1>4 DEF s, t

(* A prefix that is written only if it is needed. *)
LEMMA OpensEither ==
  ASSUME NEW p, NEW b \in 64..79, NEW o \in Byte, o \notin 64..79, o # 15,
         NEW t, NEW n \in Nat, IsCode(t, n)
  PROVE  Opens(Prefix(p, b) \o <<o>> \o t, Bit(p), IF p THEN b - 64 ELSE 0, o, 2 + Bit(p), t, n)
  <1>0. <<b>> \o <<o>> = <<b, o>> /\ <<>> \o <<o>> = <<o>>
    <2>1. b \in Byte /\ 1 \in Nat
      BY DEF Byte
    <2>2. IsCode(<<o>>, 1)
      BY OneCode
    <2>3. QED
      BY <2>1, <2>2, TwoJoined, NoneJoined
  <1>1. CASE p
    <2>1. Prefix(p, b) = <<b>> /\ Bit(p) = 1 /\ 2 + Bit(p) = 3
      BY <1>1 DEF Prefix, Bit
    <2>2. Opens(<<b, o>> \o t, 1, b - 64, o, 3, t, n)
      BY OpensPrefixed
    <2>3. QED
      BY <1>0, <1>1, <2>1, <2>2, Zenon
  <1>2. CASE ~p
    <2>1. Prefix(p, b) = <<>> /\ Bit(p) = 0 /\ 2 + Bit(p) = 2
      BY <1>2 DEF Prefix, Bit
    <2>2. Opens(<<o>> \o t, 0, 0, o, 2, t, n)
      BY OpensBare
    <2>3. QED
      BY <1>0, <1>2, <2>1, <2>2, Zenon
  <1>3. QED
    BY <1>1, <1>2

----------------------------------------------------------------------------
(* What the processor reads behind an opcode.                              *)

Result(op, w, d, s) == [op |-> op, w |-> w, d |-> d, s |-> s]
WidthOf(rex) == IF rex \div 8 = 1 THEN 64 ELSE 32

(* e is read as the opcode o behind a prefix rex, if p is 1, and as an     *)
(* operand byte, perhaps with m bytes v behind it, or as these bytes alone. *)
Shows(e, p, rex, o, r, rm) ==
  \E c, n, len, next :
    /\ len \in Nat /\ Operand(c, n, rex) = Parts(r, rm, next) /\ next = len + 1
    /\ Decode(e) = Reading(LeadOf(p, rex, o, n), c, len)

ShowsImm(e, p, rex, o, r, rm, v, m) ==
  \E c, n, len, next :
    /\ len \in Nat /\ next \in Nat /\ Operand(c, n, rex) = Parts(r, rm, next)
    /\ Cut(c, next, m) = v /\ next + m = len + 1
    /\ Decode(e) = Reading(LeadOf(p, rex, o, n), c, len)

ShowsBare(e, p, rex, o, v, m) ==
  \E c, n, len :
    /\ len \in Nat /\ n \in Nat /\ Cut(c, n, m) = v /\ n + m = len + 1
    /\ Decode(e) = Reading(LeadOf(p, rex, o, n), c, len)

LEMMA Read137 ==
  ASSUME NEW e, NEW p, NEW rex, NEW r \in 0..15, NEW rm,
         Shows(e, p, rex, 137, r, rm)
  PROVE  Decode(e) = Result("MOV", WidthOf(rex), rm, Reg(r))
  <1>1. PICK c, n, len, next :
               /\ len \in Nat /\ Operand(c, n, rex) = Parts(r, rm, next) /\ next = len + 1
               /\ Decode(e) = Reading(LeadOf(p, rex, 137, n), c, len)
    BY DEF Shows
  <1>2. Reading(LeadOf(p, rex, 137, n), c, len) =
          Took("MOV", WidthOf(rex), Operand(c, n, rex).rm, Reg(Operand(c, n, rex).reg),
               Operand(c, n, rex).next, len)
    BY DEF Reading, LeadOf, WidthOf
  <1>3. QED
    BY <1>1, <1>2 DEF Took, Result, Parts

LEMMA Read139 ==
  ASSUME NEW e, NEW p, NEW rex, NEW r \in 0..15, NEW rm,
         Shows(e, p, rex, 139, r, rm)
  PROVE  Decode(e) = Result("MOV", WidthOf(rex), Reg(r), rm)
  <1>1. PICK c, n, len, next :
               /\ len \in Nat /\ Operand(c, n, rex) = Parts(r, rm, next) /\ next = len + 1
               /\ Decode(e) = Reading(LeadOf(p, rex, 139, n), c, len)
    BY DEF Shows
  <1>2. Reading(LeadOf(p, rex, 139, n), c, len) =
          Took("MOV", WidthOf(rex), Reg(Operand(c, n, rex).reg), Operand(c, n, rex).rm,
               Operand(c, n, rex).next, len)
    BY DEF Reading, LeadOf, WidthOf
  <1>3. QED
    BY <1>1, <1>2 DEF Took, Result, Parts

LEMMA Read136 ==
  ASSUME NEW e, NEW p, NEW rex, NEW r \in 0..15, NEW rm,
         Shows(e, p, rex, 136, r, rm)
  PROVE  Decode(e) = Result("MOV", 8, ByteReg(rm, p), ByteReg(Reg(r), p))
  <1>1. PICK c, n, len, next :
               /\ len \in Nat /\ Operand(c, n, rex) = Parts(r, rm, next) /\ next = len + 1
               /\ Decode(e) = Reading(LeadOf(p, rex, 136, n), c, len)
    BY DEF Shows
  <1>2. Reading(LeadOf(p, rex, 136, n), c, len) =
          Took("MOV", 8, ByteReg(Operand(c, n, rex).rm, p),
               ByteReg(Reg(Operand(c, n, rex).reg), p), Operand(c, n, rex).next, len)
    BY DEF Reading, LeadOf, WidthOf
  <1>3. QED
    BY <1>1, <1>2 DEF Took, Result, Parts

LEMMA Read138 ==
  ASSUME NEW e, NEW p, NEW rex, NEW r \in 0..15, NEW rm,
         Shows(e, p, rex, 138, r, rm)
  PROVE  Decode(e) = Result("MOV", 8, ByteReg(Reg(r), p), ByteReg(rm, p))
  <1>1. PICK c, n, len, next :
               /\ len \in Nat /\ Operand(c, n, rex) = Parts(r, rm, next) /\ next = len + 1
               /\ Decode(e) = Reading(LeadOf(p, rex, 138, n), c, len)
    BY DEF Shows
  <1>2. Reading(LeadOf(p, rex, 138, n), c, len) =
          Took("MOV", 8, ByteReg(Reg(Operand(c, n, rex).reg), p),
               ByteReg(Operand(c, n, rex).rm, p), Operand(c, n, rex).next, len)
    BY DEF Reading, LeadOf, WidthOf
  <1>3. QED
    BY <1>1, <1>2 DEF Took, Result, Parts

LEMMA Read141 ==
  ASSUME NEW e, NEW p, NEW rex, NEW r \in 0..15, NEW rm,
         Shows(e, p, rex, 141, r, rm)
  PROVE  Decode(e) = Result("LEA", WidthOf(rex), Reg(r), rm)
  <1>1. PICK c, n, len, next :
               /\ len \in Nat /\ Operand(c, n, rex) = Parts(r, rm, next) /\ next = len + 1
               /\ Decode(e) = Reading(LeadOf(p, rex, 141, n), c, len)
    BY DEF Shows
  <1>2. Reading(LeadOf(p, rex, 141, n), c, len) =
          Took("LEA", WidthOf(rex), Reg(Operand(c, n, rex).reg), Operand(c, n, rex).rm,
               Operand(c, n, rex).next, len)
    BY DEF Reading, LeadOf, WidthOf
  <1>3. QED
    BY <1>1, <1>2 DEF Took, Result, Parts

LEMMA Read199 ==
  ASSUME NEW e, NEW p, NEW rex, NEW r \in 0..15, NEW rm, NEW v,
         ShowsImm(e, p, rex, 199, r, rm, v, 4)
  PROVE  Decode(e) = Result("MOV", WidthOf(rex), rm, Imm(SignExt(v)))
  <1>1. PICK c, n, len, next :
               /\ len \in Nat /\ next \in Nat /\ Operand(c, n, rex) = Parts(r, rm, next)
               /\ Cut(c, next, 4) = v /\ next + 4 = len + 1
               /\ Decode(e) = Reading(LeadOf(p, rex, 199, n), c, len)
    BY DEF ShowsImm
  <1>2. Reading(LeadOf(p, rex, 199, n), c, len) =
          Took("MOV", WidthOf(rex), Operand(c, n, rex).rm,
               Imm(SignExt(Cut(c, Operand(c, n, rex).next, 4))), Operand(c, n, rex).next + 4, len)
    BY DEF Reading, LeadOf, WidthOf
  <1>3. QED
    BY <1>1, <1>2 DEF Took, Result, Parts

LEMMA Read255 ==
  ASSUME NEW e, NEW p, NEW rex, NEW r \in 0..15, NEW rm,
         Shows(e, p, rex, 255, r, rm)
  PROVE  Decode(e) = Result(IF Lo(r) = 0 THEN "INC" ELSE "DEC", WidthOf(rex), rm, None)
  <1>1. PICK c, n, len, next :
               /\ len \in Nat /\ Operand(c, n, rex) = Parts(r, rm, next) /\ next = len + 1
               /\ Decode(e) = Reading(LeadOf(p, rex, 255, n), c, len)
    BY DEF Shows
  <1>2. Reading(LeadOf(p, rex, 255, n), c, len) =
          Took(IF Operand(c, n, rex).digit = 0 THEN "INC" ELSE "DEC", WidthOf(rex),
               Operand(c, n, rex).rm, None, Operand(c, n, rex).next, len)
    BY DEF Reading, LeadOf, WidthOf
  <1>3. QED
    BY <1>1, <1>2 DEF Took, Result, Parts

LEMMA Read133 ==
  ASSUME NEW e, NEW p, NEW rex, NEW r \in 0..15, NEW rm,
         Shows(e, p, rex, 133, r, rm)
  PROVE  Decode(e) = Result("TEST", WidthOf(rex), rm, Reg(r))
  <1>1. PICK c, n, len, next :
               /\ len \in Nat /\ Operand(c, n, rex) = Parts(r, rm, next) /\ next = len + 1
               /\ Decode(e) = Reading(LeadOf(p, rex, 133, n), c, len)
    BY DEF Shows
  <1>2. Reading(LeadOf(p, rex, 133, n), c, len) =
          Took("TEST", WidthOf(rex), Operand(c, n, rex).rm, Reg(Operand(c, n, rex).reg),
               Operand(c, n, rex).next, len)
    BY DEF Reading, LeadOf, WidthOf
  <1>3. QED
    BY <1>1, <1>2 DEF Took, Result, Parts

LEMMA Read132 ==
  ASSUME NEW e, NEW p, NEW rex, NEW r \in 0..15, NEW rm,
         Shows(e, p, rex, 132, r, rm)
  PROVE  Decode(e) = Result("TEST", 8, ByteReg(rm, p), ByteReg(Reg(r), p))
  <1>1. PICK c, n, len, next :
               /\ len \in Nat /\ Operand(c, n, rex) = Parts(r, rm, next) /\ next = len + 1
               /\ Decode(e) = Reading(LeadOf(p, rex, 132, n), c, len)
    BY DEF Shows
  <1>2. Reading(LeadOf(p, rex, 132, n), c, len) =
          Took("TEST", 8, ByteReg(Operand(c, n, rex).rm, p),
               ByteReg(Reg(Operand(c, n, rex).reg), p), Operand(c, n, rex).next, len)
    BY DEF Reading, LeadOf, WidthOf
  <1>3. QED
    BY <1>1, <1>2 DEF Took, Result, Parts

LEMMA Read431 ==
  ASSUME NEW e, NEW p, NEW rex, NEW r \in 0..15, NEW rm,
         Shows(e, p, rex, 431, r, rm)
  PROVE  Decode(e) = Result("IMUL", WidthOf(rex), Reg(r), rm)
  <1>1. PICK c, n, len, next :
               /\ len \in Nat /\ Operand(c, n, rex) = Parts(r, rm, next) /\ next = len + 1
               /\ Decode(e) = Reading(LeadOf(p, rex, 431, n), c, len)
    BY DEF Shows
  <1>2. Reading(LeadOf(p, rex, 431, n), c, len) =
          Took("IMUL", WidthOf(rex), Reg(Operand(c, n, rex).reg), Operand(c, n, rex).rm,
               Operand(c, n, rex).next, len)
    BY DEF Reading, LeadOf, WidthOf
  <1>3. QED
    BY <1>1, <1>2 DEF Took, Result, Parts

LEMMA Read438 ==
  ASSUME NEW e, NEW p, NEW rex, NEW r \in 0..15, NEW rm,
         Shows(e, p, rex, 438, r, rm)
  PROVE  Decode(e) = Result("MOVZX", WidthOf(rex), Reg(r), ByteReg(rm, p))
  <1>1. PICK c, n, len, next :
               /\ len \in Nat /\ Operand(c, n, rex) = Parts(r, rm, next) /\ next = len + 1
               /\ Decode(e) = Reading(LeadOf(p, rex, 438, n), c, len)
    BY DEF Shows
  <1>2. Reading(LeadOf(p, rex, 438, n), c, len) =
          Took("MOVZX", WidthOf(rex), Reg(Operand(c, n, rex).reg),
               ByteReg(Operand(c, n, rex).rm, p), Operand(c, n, rex).next, len)
    BY DEF Reading, LeadOf, WidthOf
  <1>3. QED
    BY <1>1, <1>2 DEF Took, Result, Parts

LEMMA Read247 ==
  ASSUME NEW e, NEW p, NEW rex, NEW r \in 0..15, NEW rm,
         Shows(e, p, rex, 247, r, rm), WidthOf(rex) = 64
  PROVE  Decode(e) = Result(UnaryNames[Lo(r) + 1], WidthOf(rex), rm, None)
  <1>1. PICK c, n, len, next :
               /\ len \in Nat /\ Operand(c, n, rex) = Parts(r, rm, next) /\ next = len + 1
               /\ Decode(e) = Reading(LeadOf(p, rex, 247, n), c, len)
    BY DEF Shows
  <1>2. Reading(LeadOf(p, rex, 247, n), c, len) =
          Took(UnaryNames[Operand(c, n, rex).digit + 1], WidthOf(rex), Operand(c, n, rex).rm,
               None, Operand(c, n, rex).next, len)
    BY DEF Reading, LeadOf, WidthOf
  <1>3. QED
    BY <1>1, <1>2 DEF Took, Result, Parts

LEMMA Read211 ==
  ASSUME NEW e, NEW p, NEW rex, NEW r \in 0..15, NEW rm,
         Shows(e, p, rex, 211, r, rm), WidthOf(rex) = 64
  PROVE  Decode(e) = Result(ShiftNames[Lo(r) + 1], WidthOf(rex), rm, Reg(1))
  <1>1. PICK c, n, len, next :
               /\ len \in Nat /\ Operand(c, n, rex) = Parts(r, rm, next) /\ next = len + 1
               /\ Decode(e) = Reading(LeadOf(p, rex, 211, n), c, len)
    BY DEF Shows
  <1>2. Reading(LeadOf(p, rex, 211, n), c, len) =
          Took(ShiftNames[Operand(c, n, rex).digit + 1], WidthOf(rex), Operand(c, n, rex).rm,
               Reg(1), Operand(c, n, rex).next, len)
    BY DEF Reading, LeadOf, WidthOf
  <1>3. QED
    BY <1>1, <1>2 DEF Took, Result, Parts

LEMMA Read209 ==
  ASSUME NEW e, NEW p, NEW rex, NEW r \in 0..15, NEW rm,
         Shows(e, p, rex, 209, r, rm), WidthOf(rex) = 64
  PROVE  Decode(e) = Result(ShiftNames[Lo(r) + 1], WidthOf(rex), rm, Imm(ZeroExt(<<1>>)))
  <1>1. PICK c, n, len, next :
               /\ len \in Nat /\ Operand(c, n, rex) = Parts(r, rm, next) /\ next = len + 1
               /\ Decode(e) = Reading(LeadOf(p, rex, 209, n), c, len)
    BY DEF Shows
  <1>2. Reading(LeadOf(p, rex, 209, n), c, len) =
          Took(ShiftNames[Operand(c, n, rex).digit + 1], WidthOf(rex), Operand(c, n, rex).rm,
               Imm(ZeroExt(<<1>>)), Operand(c, n, rex).next, len)
    BY DEF Reading, LeadOf, WidthOf
  <1>3. QED
    BY <1>1, <1>2 DEF Took, Result, Parts

LEMMA Read193 ==
  ASSUME NEW e, NEW p, NEW rex, NEW r \in 0..15, NEW rm, NEW v,
         ShowsImm(e, p, rex, 193, r, rm, v, 1), WidthOf(rex) = 64
  PROVE  Decode(e) = Result(ShiftNames[Lo(r) + 1], WidthOf(rex), rm, Imm(ZeroExt(v)))
  <1>1. PICK c, n, len, next :
               /\ len \in Nat /\ next \in Nat /\ Operand(c, n, rex) = Parts(r, rm, next)
               /\ Cut(c, next, 1) = v /\ next + 1 = len + 1
               /\ Decode(e) = Reading(LeadOf(p, rex, 193, n), c, len)
    BY DEF ShowsImm
  <1>2. Reading(LeadOf(p, rex, 193, n), c, len) =
          Took(ShiftNames[Operand(c, n, rex).digit + 1], WidthOf(rex), Operand(c, n, rex).rm,
               Imm(ZeroExt(Cut(c, Operand(c, n, rex).next, 1))), Operand(c, n, rex).next + 1, len)
    BY DEF Reading, LeadOf, WidthOf
  <1>3. QED
    BY <1>1, <1>2 DEF Took, Result, Parts

LEMMA Read131 ==
  ASSUME NEW e, NEW p, NEW rex, NEW r \in 0..15, NEW rm, NEW v,
         ShowsImm(e, p, rex, 131, r, rm, v, 1), WidthOf(rex) = 64
  PROVE  Decode(e) = Result(AluNames[Lo(r) + 1], WidthOf(rex), rm, Imm(SignExt(v)))
  <1>1. PICK c, n, len, next :
               /\ len \in Nat /\ next \in Nat /\ Operand(c, n, rex) = Parts(r, rm, next)
               /\ Cut(c, next, 1) = v /\ next + 1 = len + 1
               /\ Decode(e) = Reading(LeadOf(p, rex, 131, n), c, len)
    BY DEF ShowsImm
  <1>2. Reading(LeadOf(p, rex, 131, n), c, len) =
          Took(AluNames[Operand(c, n, rex).digit + 1], WidthOf(rex), Operand(c, n, rex).rm,
               Imm(SignExt(Cut(c, Operand(c, n, rex).next, 1))), Operand(c, n, rex).next + 1, len)
    BY DEF Reading, LeadOf, WidthOf
  <1>3. QED
    BY <1>1, <1>2 DEF Took, Result, Parts

LEMMA Read129 ==
  ASSUME NEW e, NEW p, NEW rex, NEW r \in 0..15, NEW rm, NEW v,
         ShowsImm(e, p, rex, 129, r, rm, v, 4), WidthOf(rex) = 64
  PROVE  Decode(e) = Result(AluNames[Lo(r) + 1], WidthOf(rex), rm, Imm(SignExt(v)))
  <1>1. PICK c, n, len, next :
               /\ len \in Nat /\ next \in Nat /\ Operand(c, n, rex) = Parts(r, rm, next)
               /\ Cut(c, next, 4) = v /\ next + 4 = len + 1
               /\ Decode(e) = Reading(LeadOf(p, rex, 129, n), c, len)
    BY DEF ShowsImm
  <1>2. Reading(LeadOf(p, rex, 129, n), c, len) =
          Took(AluNames[Operand(c, n, rex).digit + 1], WidthOf(rex), Operand(c, n, rex).rm,
               Imm(SignExt(Cut(c, Operand(c, n, rex).next, 4))), Operand(c, n, rex).next + 4, len)
    BY DEF Reading, LeadOf, WidthOf
  <1>3. QED
    BY <1>1, <1>2 DEF Took, Result, Parts

LEMMA Read128 ==
  ASSUME NEW e, NEW p, NEW rex, NEW r \in 0..15, NEW rm, NEW v,
         ShowsImm(e, p, rex, 128, r, rm, v, 1)
  PROVE  Decode(e) = Result(AluNames[Lo(r) + 1], 8, ByteReg(rm, p), Imm(ZeroExt(v)))
  <1>1. PICK c, n, len, next :
               /\ len \in Nat /\ next \in Nat /\ Operand(c, n, rex) = Parts(r, rm, next)
               /\ Cut(c, next, 1) = v /\ next + 1 = len + 1
               /\ Decode(e) = Reading(LeadOf(p, rex, 128, n), c, len)
    BY DEF ShowsImm
  <1>2. Reading(LeadOf(p, rex, 128, n), c, len) =
          Took(AluNames[Operand(c, n, rex).digit + 1], 8, ByteReg(Operand(c, n, rex).rm, p),
               Imm(ZeroExt(Cut(c, Operand(c, n, rex).next, 1))), Operand(c, n, rex).next + 1, len)
    BY DEF Reading, LeadOf, WidthOf
  <1>3. QED
    BY <1>1, <1>2 DEF Took, Result, Parts

LEMMA ReadAlu1 ==
  ASSUME NEW e, NEW p, NEW rex, NEW r \in 0..15, NEW rm,
         NEW g \in 0..7, NEW o, o = 8 * g + 1,
         Shows(e, p, rex, o, r, rm)
  PROVE  Decode(e) =
           Result(AluNames[g + 1],
                  IF AluNames[g + 1] = "XOR" /\ rm = Reg(r) /\ WidthOf(rex) = 32
                  THEN 64 ELSE WidthOf(rex),
                 rm, Reg(r))
  <1>1. PICK c, n, len, next :
               /\ len \in Nat /\ Operand(c, n, rex) = Parts(r, rm, next) /\ next = len + 1
               /\ Decode(e) = Reading(LeadOf(p, rex, o, n), c, len)
    BY DEF Shows
  <1>2. Reading(LeadOf(p, rex, o, n), c, len) =
          Took(AluNames[o \div 8 + 1], WidthOf(rex), Operand(c, n, rex).rm,
               Reg(Operand(c, n, rex).reg), Operand(c, n, rex).next, len)
    BY SMTT(60) DEF Reading, LeadOf, WidthOf
  <1>3. QED
    BY <1>1, <1>2 DEF Took, Result, Parts

LEMMA ReadAlu0 ==
  ASSUME NEW e, NEW p, NEW rex, NEW r \in 0..15, NEW rm,
         NEW g \in 0..7, NEW o, o = 8 * g + 0,
         Shows(e, p, rex, o, r, rm)
  PROVE  Decode(e) = Result(AluNames[g + 1], 8, ByteReg(rm, p), ByteReg(Reg(r), p))
  <1>1. PICK c, n, len, next :
               /\ len \in Nat /\ Operand(c, n, rex) = Parts(r, rm, next) /\ next = len + 1
               /\ Decode(e) = Reading(LeadOf(p, rex, o, n), c, len)
    BY DEF Shows
  <1>2. Reading(LeadOf(p, rex, o, n), c, len) =
          Took(AluNames[o \div 8 + 1], 8, ByteReg(Operand(c, n, rex).rm, p),
               ByteReg(Reg(Operand(c, n, rex).reg), p), Operand(c, n, rex).next, len)
    BY SMTT(60) DEF Reading, LeadOf, WidthOf
  <1>3. QED
    BY <1>1, <1>2 DEF Took, Result, Parts

LEMMA ReadAlu5 ==
  ASSUME NEW e, NEW p, NEW rex, NEW g \in 0..7, NEW o, o = 8 * g + 5,
         NEW v, ShowsBare(e, p, rex, o, v, 4), WidthOf(rex) = 64
  PROVE  Decode(e) = Result(AluNames[g + 1], WidthOf(rex), Reg(0), Imm(SignExt(v)))
  <1>1. PICK c, n, len :
               /\ len \in Nat /\ n \in Nat /\ Cut(c, n, 4) = v /\ n + 4 = len + 1
               /\ Decode(e) = Reading(LeadOf(p, rex, o, n), c, len)
    BY DEF ShowsBare
  <1>2. Reading(LeadOf(p, rex, o, n), c, len) =
          Took(AluNames[o \div 8 + 1], WidthOf(rex), Reg(0), Imm(SignExt(Cut(c, n, 4))), n + 4,
               len)
    BY SMTT(60) DEF Reading, LeadOf, WidthOf
  <1>3. QED
    BY <1>1, <1>2 DEF Took, Result

LEMMA ReadAlu4 ==
  ASSUME NEW e, NEW p, NEW rex, NEW g \in 0..7, NEW o, o = 8 * g + 4,
         NEW v, ShowsBare(e, p, rex, o, v, 1)
  PROVE  Decode(e) = Result(AluNames[g + 1], 8, Reg(0), Imm(ZeroExt(v)))
  <1>1. PICK c, n, len :
               /\ len \in Nat /\ n \in Nat /\ Cut(c, n, 1) = v /\ n + 1 = len + 1
               /\ Decode(e) = Reading(LeadOf(p, rex, o, n), c, len)
    BY DEF ShowsBare
  <1>2. Reading(LeadOf(p, rex, o, n), c, len) =
          Took(AluNames[o \div 8 + 1], 8, Reg(0), Imm(ZeroExt(Cut(c, n, 1))), n + 1, len)
    BY SMTT(60) DEF Reading, LeadOf, WidthOf
  <1>3. QED
    BY <1>1, <1>2 DEF Took, Result

LEMMA ReadMovQ ==
  ASSUME NEW e, NEW p, NEW rex, NEW o \in 184..191,
         NEW v, ShowsBare(e, p, rex, o, v, 8), WidthOf(rex) = 64
  PROVE  Decode(e) = Result("MOV", 64, Reg(8 * (rex % 2) + (o % 8)), Imm(v))
  <1>1. PICK c, n, len :
               /\ len \in Nat /\ n \in Nat /\ Cut(c, n, 8) = v /\ n + 8 = len + 1
               /\ Decode(e) = Reading(LeadOf(p, rex, o, n), c, len)
    BY DEF ShowsBare
  <1>2. Reading(LeadOf(p, rex, o, n), c, len) =
          Took("MOV", 64, Reg(8 * (rex % 2) + (o % 8)), Imm(Cut(c, n, 8)), n + 8, len)
    BY DEF Reading, LeadOf, WidthOf
  <1>3. QED
    BY <1>1, <1>2 DEF Took, Result

LEMMA ReadMovD ==
  ASSUME NEW e, NEW p, NEW rex, NEW o \in 184..191,
         NEW v, ShowsBare(e, p, rex, o, v, 4), WidthOf(rex) = 32
  PROVE  Decode(e) = Result("MOV", 64, Reg(8 * (rex % 2) + (o % 8)), Imm(ZeroExt(v)))
  <1>1. PICK c, n, len :
               /\ len \in Nat /\ n \in Nat /\ Cut(c, n, 4) = v /\ n + 4 = len + 1
               /\ Decode(e) = Reading(LeadOf(p, rex, o, n), c, len)
    BY DEF ShowsBare
  <1>2. Reading(LeadOf(p, rex, o, n), c, len) =
          Took("MOV", 64, Reg(8 * (rex % 2) + (o % 8)), Imm(ZeroExt(Cut(c, n, 4))), n + 4, len)
    BY DEF Reading, LeadOf, WidthOf
  <1>3. QED
    BY <1>1, <1>2 DEF Took, Result

LEMMA ReadMovB ==
  ASSUME NEW e, NEW p, NEW rex, NEW o \in 176..183,
         NEW v, ShowsBare(e, p, rex, o, v, 1)
  PROVE  Decode(e) = Result("MOV", 8, ByteReg(Reg(8 * (rex % 2) + (o % 8)), p), Imm(ZeroExt(v)))
  <1>1. PICK c, n, len :
               /\ len \in Nat /\ n \in Nat /\ Cut(c, n, 1) = v /\ n + 1 = len + 1
               /\ Decode(e) = Reading(LeadOf(p, rex, o, n), c, len)
    BY DEF ShowsBare
  <1>2. Reading(LeadOf(p, rex, o, n), c, len) =
          Took("MOV", 8, ByteReg(Reg(8 * (rex % 2) + (o % 8)), p), Imm(ZeroExt(Cut(c, n, 1))),
               n + 1, len)
    BY DEF Reading, LeadOf, WidthOf
  <1>3. QED
    BY <1>1, <1>2 DEF Took, Result

LEMMA ReadPush ==
  ASSUME NEW e, NEW p, NEW rex, NEW o \in 80..87,
         NEW v, ShowsBare(e, p, rex, o, v, 0)
  PROVE  Decode(e) = Result("PUSH", 64, Reg(8 * (rex % 2) + (o % 8)), None)
  <1>1. PICK c, n, len :
               /\ len \in Nat /\ n \in Nat /\ Cut(c, n, 0) = v /\ n + 0 = len + 1
               /\ Decode(e) = Reading(LeadOf(p, rex, o, n), c, len)
    BY DEF ShowsBare
  <1>2. Reading(LeadOf(p, rex, o, n), c, len) =
          Took("PUSH", 64, Reg(8 * (rex % 2) + (o % 8)), None, n, len)
    BY DEF Reading, LeadOf, WidthOf
  <1>3. QED
    BY <1>1, <1>2 DEF Took, Result

LEMMA ReadPop ==
  ASSUME NEW e, NEW p, NEW rex, NEW o \in 88..95,
         NEW v, ShowsBare(e, p, rex, o, v, 0)
  PROVE  Decode(e) = Result("POP", 64, Reg(8 * (rex % 2) + (o % 8)), None)
  <1>1. PICK c, n, len :
               /\ len \in Nat /\ n \in Nat /\ Cut(c, n, 0) = v /\ n + 0 = len + 1
               /\ Decode(e) = Reading(LeadOf(p, rex, o, n), c, len)
    BY DEF ShowsBare
  <1>2. Reading(LeadOf(p, rex, o, n), c, len) =
          Took("POP", 64, Reg(8 * (rex % 2) + (o % 8)), None, n, len)
    BY DEF Reading, LeadOf, WidthOf
  <1>3. QED
    BY <1>1, <1>2 DEF Took, Result

LEMMA Read106 ==
  ASSUME NEW e, NEW p, NEW rex, NEW v, ShowsBare(e, p, rex, 106, v, 1)
  PROVE  Decode(e) = Result("PUSH", 64, Imm(SignExt(v)), None)
  <1>1. PICK c, n, len :
               /\ len \in Nat /\ n \in Nat /\ Cut(c, n, 1) = v /\ n + 1 = len + 1
               /\ Decode(e) = Reading(LeadOf(p, rex, 106, n), c, len)
    BY DEF ShowsBare
  <1>2. Reading(LeadOf(p, rex, 106, n), c, len) =
          Took("PUSH", 64, Imm(SignExt(Cut(c, n, 1))), None, n + 1, len)
    BY DEF Reading, LeadOf, WidthOf
  <1>3. QED
    BY <1>1, <1>2 DEF Took, Result

LEMMA Read104 ==
  ASSUME NEW e, NEW p, NEW rex, NEW v, ShowsBare(e, p, rex, 104, v, 4)
  PROVE  Decode(e) = Result("PUSH", 64, Imm(SignExt(v)), None)
  <1>1. PICK c, n, len :
               /\ len \in Nat /\ n \in Nat /\ Cut(c, n, 4) = v /\ n + 4 = len + 1
               /\ Decode(e) = Reading(LeadOf(p, rex, 104, n), c, len)
    BY DEF ShowsBare
  <1>2. Reading(LeadOf(p, rex, 104, n), c, len) =
          Took("PUSH", 64, Imm(SignExt(Cut(c, n, 4))), None, n + 4, len)
    BY DEF Reading, LeadOf, WidthOf
  <1>3. QED
    BY <1>1, <1>2 DEF Took, Result

LEMMA Read195 ==
  ASSUME NEW e, NEW p, NEW rex, NEW v, ShowsBare(e, p, rex, 195, v, 0)
  PROVE  Decode(e) = Result("RET", 64, None, None)
  <1>1. PICK c, n, len :
               /\ len \in Nat /\ n \in Nat /\ Cut(c, n, 0) = v /\ n + 0 = len + 1
               /\ Decode(e) = Reading(LeadOf(p, rex, 195, n), c, len)
    BY DEF ShowsBare
  <1>2. Reading(LeadOf(p, rex, 195, n), c, len) = Took("RET", 64, None, None, n, len)
    BY DEF Reading, LeadOf, WidthOf
  <1>3. QED
    BY <1>1, <1>2 DEF Took, Result

LEMMA Read153 ==
  ASSUME NEW e, NEW p, NEW rex, NEW v, ShowsBare(e, p, rex, 153, v, 0)
  PROVE  Decode(e) = Result("CQO", WidthOf(rex), None, None)
  <1>1. PICK c, n, len :
               /\ len \in Nat /\ n \in Nat /\ Cut(c, n, 0) = v /\ n + 0 = len + 1
               /\ Decode(e) = Reading(LeadOf(p, rex, 153, n), c, len)
    BY DEF ShowsBare
  <1>2. Reading(LeadOf(p, rex, 153, n), c, len) = Took("CQO", WidthOf(rex), None, None, n, len)
    BY DEF Reading, LeadOf, WidthOf
  <1>3. QED
    BY <1>1, <1>2 DEF Took, Result

LEMMA Read144 ==
  ASSUME NEW e, NEW p, NEW rex, NEW v, ShowsBare(e, p, rex, 144, v, 0)
  PROVE  Decode(e) = Result("NOP", 64, None, None)
  <1>1. PICK c, n, len :
               /\ len \in Nat /\ n \in Nat /\ Cut(c, n, 0) = v /\ n + 0 = len + 1
               /\ Decode(e) = Reading(LeadOf(p, rex, 144, n), c, len)
    BY DEF ShowsBare
  <1>2. Reading(LeadOf(p, rex, 144, n), c, len) = Took("NOP", 64, None, None, n, len)
    BY DEF Reading, LeadOf, WidthOf
  <1>3. QED
    BY <1>1, <1>2 DEF Took, Result

LEMMA Read261 ==
  ASSUME NEW e, NEW p, NEW rex, NEW v, ShowsBare(e, p, rex, 261, v, 0)
  PROVE  Decode(e) = Result("SYSCALL", 64, None, None)
  <1>1. PICK c, n, len :
               /\ len \in Nat /\ n \in Nat /\ Cut(c, n, 0) = v /\ n + 0 = len + 1
               /\ Decode(e) = Reading(LeadOf(p, rex, 261, n), c, len)
    BY DEF ShowsBare
  <1>2. Reading(LeadOf(p, rex, 261, n), c, len) = Took("SYSCALL", 64, None, None, n, len)
    BY DEF Reading, LeadOf, WidthOf
  <1>3. QED
    BY <1>1, <1>2 DEF Took, Result

LEMMA ReadSet ==
  ASSUME NEW e, NEW p, NEW rex, NEW r \in 0..15, NEW rm, NEW o \in 400..415,
        
         Shows(e, p, rex, o, r, rm)
  PROVE  Decode(e) = Result(ConditionNames[o - 399], 8, ByteReg(rm, p), None)
  <1>1. PICK c, n, len, next :
               /\ len \in Nat /\ Operand(c, n, rex) = Parts(r, rm, next) /\ next = len + 1
               /\ Decode(e) = Reading(LeadOf(p, rex, o, n), c, len)
    BY DEF Shows
  <1>2. Reading(LeadOf(p, rex, o, n), c, len) =
          Took(ConditionNames[o - 399], 8, ByteReg(Operand(c, n, rex).rm, p), None,
               Operand(c, n, rex).next, len)
    BY DEF Reading, LeadOf, WidthOf
  <1>3. QED
    BY <1>1, <1>2 DEF Took, Result, Parts

----------------------------------------------------------------------------
(* From the bytes behind the opcode to what is read of them.               *)

LEMMA OpensShows ==
  ASSUME NEW e, NEW p, NEW rex, NEW o, NEW m, NEW t, NEW n, NEW r, NEW rm,
         Opens(e, p, rex, o, m, t, n),
         \A c : InCode(c, m, t, n) => Operand(c, m, rex) = Parts(r, rm, m + n)
  PROVE  Shows(e, p, rex, o, r, rm)
  <1>1. PICK c : InCode(c, m, t, n) /\ Decode(e) = Reading(LeadOf(p, rex, o, m), c, m + n - 1)
    BY DEF Opens
  <1>2. Operand(c, m, rex) = Parts(r, rm, m + n)
    BY <1>1
  <1>3. m + n - 1 \in Nat /\ m + n = (m + n - 1) + 1
    BY <1>1 DEF InCode
  <1>4. QED
    BY <1>1, <1>2, <1>3, Zenon DEF Shows

LEMMA ShownReg ==
  ASSUME NEW e, NEW p, NEW rex, NEW o, NEW n, NEW r \in 0..15, NEW m \in 0..15,
         Fields(rex, r, m), Opens(e, p, rex, o, n, <<ModRM(3, r, m)>>, 1)
  PROVE  Shows(e, p, rex, o, r, Reg(m))
  <1>1. ASSUME NEW c, InCode(c, n, <<ModRM(3, r, m)>>, 1)
        PROVE  Operand(c, n, rex) = Parts(r, Reg(m), n + 1)
    <2>1. n \in Nat /\ c[n] = ModRM(3, r, m)
      BY <1>1, AtOne DEF InCode
    <2>2. QED
      BY <2>1, OperandReg
  <1>2. QED
    BY <1>1, OpensShows

LEMMA ShownPlain ==
  ASSUME NEW e, NEW p, NEW rex, NEW o, NEW n, NEW r \in 0..15, NEW a, a.r \in 0..15,
         Fields(rex, r, a.r), NEW k, Opens(e, p, rex, o, n, Plain(r, a), k)
  PROVE  Shows(e, p, rex, o, r, Mem(a.r, NoIndex, 1, Zero))
  BY OperandPlain, OpensShows

LEMMA ShownStore ==
  ASSUME NEW e, NEW p, NEW rex, NEW o, NEW n, NEW r \in 0..15, NEW a, a.r \in 0..15,
         a.v \in Word8, Below31(a.v), Fields(rex, r, a.r),
         NEW k, Opens(e, p, rex, o, n, Store(r, a), k)
  PROVE  Shows(e, p, rex, o, r, Mem(a.r, NoIndex, 1, Disp(a)))
  BY OperandStore, OpensShows

LEMMA ShownLoad ==
  ASSUME NEW e, NEW p, NEW rex, NEW o, NEW n, NEW r \in 0..15, NEW a, a.r \in 0..15,
         a.v \in Word8, junk \in Byte, Fields(rex, r, a.r),
         NEW k, Opens(e, p, rex, o, n, Load(r, a), k)
  PROVE  Shows(e, p, rex, o, r, Mem(a.r, NoIndex, 1, LoadDisp(a)))
  BY OperandLoad, OpensShows

LEMMA ShownIndexed ==
  ASSUME NEW e, NEW p, NEW rex, NEW o, NEW n, NEW r \in 0..15, NEW a, a.r \in 0..15,
         a.x \in 0..15, a.f \in {1, 2, 4, 8}, Fields(rex, r, a.r),
         NEW k, Opens(e, p, rex, o, n, IndexedTail(r, a), k)
  PROVE  Shows(e, p, rex, o, r, IndexRead(a))
  BY OperandIndexed, OpensShows

(* With m bytes v behind the operand. *)
LEMMA OpensShowsImm ==
  ASSUME NEW e, NEW p, NEW rex, NEW o, NEW k, NEW t, NEW n \in Nat, NEW r, NEW rm,
         NEW v, NEW m \in Nat, IsCode(t, n), IsCode(v, m),
         Opens(e, p, rex, o, k, t \o v, n + m),
         \A c : InCode(c, k, t, n) => Operand(c, k, rex) = Parts(r, rm, k + n)
  PROVE  ShowsImm(e, p, rex, o, r, rm, v, m)
  <1>1. PICK c : /\ InCode(c, k, t \o v, n + m)
                 /\ Decode(e) = Reading(LeadOf(p, rex, o, k), c, k + (n + m) - 1)
    BY DEF Opens
  <1>2. InCode(c, k, t, n) /\ InCode(c, k + n, v, m)
    BY <1>1, InCodeJoin
  <1>3. Operand(c, k, rex) = Parts(r, rm, k + n) /\ Cut(c, k + n, m) = v
    BY <1>2, InCodeCut
  <1>4. k + n \in Nat /\ k + (n + m) - 1 \in Nat /\ (k + n) + m = (k + (n + m) - 1) + 1
    BY <1>1 DEF InCode
  <1>5. QED
    BY <1>1, <1>3, <1>4, Zenon DEF ShowsImm

LEMMA ShownRegImm ==
  ASSUME NEW e, NEW p, NEW rex, NEW o, NEW n, NEW r \in 0..15, NEW m \in 0..15,
         NEW v, NEW k \in Nat, IsCode(v, k), Fields(rex, r, m),
         Opens(e, p, rex, o, n, <<ModRM(3, r, m)>> \o v, 1 + k)
  PROVE  ShowsImm(e, p, rex, o, r, Reg(m), v, k)
  <1>1. ASSUME NEW c, InCode(c, n, <<ModRM(3, r, m)>>, 1)
        PROVE  Operand(c, n, rex) = Parts(r, Reg(m), n + 1)
    <2>1. n \in Nat /\ c[n] = ModRM(3, r, m)
      BY <1>1, AtOne DEF InCode
    <2>2. QED
      BY <2>1, OperandReg
  <1>2. IsCode(<<ModRM(3, r, m)>>, 1) /\ 1 \in Nat
    <2>1. 3 \in 0..3
      OBVIOUS
    <2>2. QED
      BY <2>1, ModRMType, OneCode
  <1>3. QED
    BY <1>1, <1>2, OpensShowsImm

LEMMA ShownStoreImm ==
  ASSUME NEW e, NEW p, NEW rex, NEW o, NEW n, NEW r \in 0..15, NEW a, a.r \in 0..15,
         a.v \in Word8, Below31(a.v), Fields(rex, r, a.r),
         NEW v, NEW k \in Nat, IsCode(v, k), NEW m \in Nat, IsCode(Store(r, a), m),
         Opens(e, p, rex, o, n, Store(r, a) \o v, m + k)
  PROVE  ShowsImm(e, p, rex, o, r, Mem(a.r, NoIndex, 1, Disp(a)), v, k)
  BY OperandStore, OpensShowsImm

LEMMA ShownBare ==
  ASSUME NEW e, NEW p, NEW rex, NEW o, NEW n, NEW v, NEW k, Opens(e, p, rex, o, n, v, k)
  PROVE  ShowsBare(e, p, rex, o, v, k)
  <1>1. PICK c : InCode(c, n, v, k) /\ Decode(e) = Reading(LeadOf(p, rex, o, n), c, n + k - 1)
    BY DEF Opens
  <1>2. Cut(c, n, k) = v
    BY <1>1, InCodeCut
  <1>3. n \in Nat /\ n + k - 1 \in Nat /\ n + k = (n + k - 1) + 1
    BY <1>1 DEF InCode
  <1>4. QED
    BY <1>1, <1>2, <1>3, Zenon DEF ShowsBare

(* Instructions with the prefix of a 64-bit operation. *)
ShowsWide(e, o, r, rm) == \E rex : Shows(e, 1, rex, o, r, rm) /\ WidthOf(rex) = 64

ShowsWideImm(e, o, r, rm, v, m) ==
  \E rex : ShowsImm(e, 1, rex, o, r, rm, v, m) /\ WidthOf(rex) = 64

WideOpen(e, o, r, m, t, n) ==
  \E rex, k : Opens(e, 1, rex, o, k, t, n) /\ Fields(rex, r, m) /\ WidthOf(rex) = 64

LEMMA WideFields ==
  ASSUME NEW r \in 0..15, NEW m \in 0..15
  PROVE  /\ RexW(r, m) \in 64..79 /\ Fields(RexW(r, m) - 64, r, m)
         /\ WidthOf(RexW(r, m) - 64) = 64
  <1>1. 1 \in 0..1
    OBVIOUS
  <1>2. /\ RexW(r, m) \in 64..79 /\ Fields(RexW(r, m) - 64, r, m)
        /\ (RexW(r, m) - 64) \div 8 = 1
    BY <1>1, RexFields DEF RexW
  <1>3. QED
    BY <1>2 DEF WidthOf

LEMMA Widened ==
  ASSUME NEW o \in Byte, o # 15, NEW r \in 0..15, NEW m \in 0..15,
         NEW t, NEW n \in Nat, IsCode(t, n)
  PROVE  WideOpen(<<RexW(r, m), o>> \o t, o, r, m, t, n)
  <1> DEFINE b == RexW(r, m)
  <1>1. b \in 64..79 /\ Fields(b - 64, r, m) /\ WidthOf(b - 64) = 64
    BY WideFields, ZenonT(60)
  <1> HIDE DEF b
  <1>2. Opens(<<b, o>> \o t, 1, b - 64, o, 3, t, n)
    BY <1>1, OpensPrefixed
  <1>3. QED
    BY <1>1, <1>2, Zenon DEF WideOpen, b

LEMMA WideReg ==
  ASSUME NEW e, NEW o, NEW r \in 0..15, NEW m \in 0..15,
         WideOpen(e, o, r, m, <<ModRM(3, r, m)>>, 1)
  PROVE  ShowsWide(e, o, r, Reg(m))
  BY ShownReg, ZenonT(60) DEF WideOpen, ShowsWide

LEMMA WidePlain ==
  ASSUME NEW e, NEW o, NEW r \in 0..15, NEW a, a.r \in 0..15,
         NEW n, WideOpen(e, o, r, a.r, Plain(r, a), n)
  PROVE  ShowsWide(e, o, r, Mem(a.r, NoIndex, 1, Zero))
  BY ShownPlain DEF WideOpen, ShowsWide

LEMMA WideStore ==
  ASSUME NEW e, NEW o, NEW r \in 0..15, NEW a, a.r \in 0..15, a.v \in Word8, Below31(a.v),
         NEW n, WideOpen(e, o, r, a.r, Store(r, a), n)
  PROVE  ShowsWide(e, o, r, Mem(a.r, NoIndex, 1, Disp(a)))
  BY ShownStore DEF WideOpen, ShowsWide

LEMMA WideLoad ==
  ASSUME NEW e, NEW o, NEW r \in 0..15, NEW a, a.r \in 0..15, a.v \in Word8, junk \in Byte,
         NEW n, WideOpen(e, o, r, a.r, Load(r, a), n)
  PROVE  ShowsWide(e, o, r, Mem(a.r, NoIndex, 1, LoadDisp(a)))
  BY ShownLoad DEF WideOpen, ShowsWide

LEMMA WideIndexed ==
  ASSUME NEW e, NEW o, NEW r \in 0..15, NEW a, a.r \in 0..15, a.x \in 0..15,
         a.f \in {1, 2, 4, 8}, NEW n, WideOpen(e, o, r, a.r, IndexedTail(r, a), n)
  PROVE  ShowsWide(e, o, r, IndexRead(a))
  BY ShownIndexed DEF WideOpen, ShowsWide

LEMMA WideRegImm ==
  ASSUME NEW e, NEW o, NEW r \in 0..15, NEW m \in 0..15, NEW v, NEW k \in Nat, IsCode(v, k),
         WideOpen(e, o, r, m, <<ModRM(3, r, m)>> \o v, 1 + k)
  PROVE  ShowsWideImm(e, o, r, Reg(m), v, k)
  BY ShownRegImm, ZenonT(60) DEF WideOpen, ShowsWideImm

LEMMA WideStoreImm ==
  ASSUME NEW e, NEW o, NEW r \in 0..15, NEW a, a.r \in 0..15, a.v \in Word8, Below31(a.v),
         NEW v, NEW k \in Nat, IsCode(v, k), NEW n \in Nat, IsCode(Store(r, a), n),
         WideOpen(e, o, r, a.r, Store(r, a) \o v, n + k)
  PROVE  ShowsWideImm(e, o, r, Mem(a.r, NoIndex, 1, Disp(a)), v, k)
  BY ShownStoreImm, ZenonT(60) DEF WideOpen, ShowsWideImm

(* Instructions on bytes, with a prefix if p. *)
ShowsByte(e, p, o, r, rm) == \E rex : Shows(e, Bit(p), rex, o, r, rm)

ByteOpen(e, p, o, r, m, t, n) ==
  \E rex, k : Opens(e, Bit(p), rex, o, k, t, n) /\ Fields(rex, r, m)

LEMMA ByteFields ==
  ASSUME NEW p, NEW r \in 0..15, NEW m \in 0..15, p \/ (r < 8 /\ m < 8)
  PROVE  RexB(r, m) \in 64..79 /\ Fields(IF p THEN RexB(r, m) - 64 ELSE 0, r, m)
  <1>1. 0 \in 0..1
    OBVIOUS
  <1>2. RexB(r, m) \in 64..79 /\ Fields(RexB(r, m) - 64, r, m)
    BY <1>1, RexFields DEF RexB
  <1>3. CASE ~p
    <2>1. Hi(r) = 0 /\ Hi(m) = 0
      BY <1>3 DEF Hi
    <2>2. QED
      BY <1>2, <1>3, <2>1 DEF Fields
  <1>4. QED
    BY <1>2, <1>3

LEMMA Narrowed ==
  ASSUME NEW p, NEW o \in Byte, o \notin 64..79, o # 15, NEW r \in 0..15, NEW m \in 0..15,
         p \/ (r < 8 /\ m < 8), NEW t, NEW n \in Nat, IsCode(t, n)
  PROVE  ByteOpen(Prefix(p, RexB(r, m)) \o <<o>> \o t, p, o, r, m, t, n)
  <1> DEFINE b == RexB(r, m)
  <1>1. b \in 64..79 /\ Fields(IF p THEN b - 64 ELSE 0, r, m)
    BY ByteFields
  <1> HIDE DEF b
  <1>2. Opens(Prefix(p, b) \o <<o>> \o t, Bit(p), IF p THEN b - 64 ELSE 0, o, 2 + Bit(p), t, n)
    BY <1>1, OpensEither
  <1>3. QED
    BY <1>1, <1>2, Zenon DEF ByteOpen, b

LEMMA ByteRegShown ==
  ASSUME NEW e, NEW p, NEW o, NEW r \in 0..15, NEW m \in 0..15,
         ByteOpen(e, p, o, r, m, <<ModRM(3, r, m)>>, 1)
  PROVE  ShowsByte(e, p, o, r, Reg(m))
  BY ShownReg DEF ByteOpen, ShowsByte

LEMMA BytePlain ==
  ASSUME NEW e, NEW p, NEW o, NEW r \in 0..15, NEW a, a.r \in 0..15,
         NEW n, ByteOpen(e, p, o, r, a.r, Plain(r, a), n)
  PROVE  ShowsByte(e, p, o, r, Mem(a.r, NoIndex, 1, Zero))
  BY ShownPlain DEF ByteOpen, ShowsByte

LEMMA ByteStore ==
  ASSUME NEW e, NEW p, NEW o, NEW r \in 0..15, NEW a, a.r \in 0..15, a.v \in Word8,
         Below31(a.v), NEW n, ByteOpen(e, p, o, r, a.r, Store(r, a), n)
  PROVE  ShowsByte(e, p, o, r, Mem(a.r, NoIndex, 1, Disp(a)))
  BY ShownStore DEF ByteOpen, ShowsByte

LEMMA ByteLoad ==
  ASSUME NEW e, NEW p, NEW o, NEW r \in 0..15, NEW a, a.r \in 0..15, a.v \in Word8,
         junk \in Byte, NEW n, ByteOpen(e, p, o, r, a.r, Load(r, a), n)
  PROVE  ShowsByte(e, p, o, r, Mem(a.r, NoIndex, 1, LoadDisp(a)))
  BY ShownLoad DEF ByteOpen, ShowsByte

(* Byte registers that are the ones they seem to be. *)
LEMMA ByteRegRight ==
  ASSUME NEW p, NEW r \in 0..15
  PROVE  /\ (p \/ r < 4 \/ r >= 8) => ByteReg(Reg(r), Bit(p)) = Reg(r)
         /\ \A b, x, f, v : ByteReg(Mem(b, x, f, v), Bit(p)) = Mem(b, x, f, v)
         /\ ByteReg(Reg(r), 1) = Reg(r)
  BY DEF ByteReg, Bit, Reg, Mem

(* The whole code of an instruction. *)
LEMMA RegByteCode ==
  ASSUME NEW r \in 0..15, NEW m \in 0..15
  PROVE  IsCode(<<ModRM(3, r, m)>>, 1)
  <1>1. 3 \in 0..3
    OBVIOUS
  <1>2. QED
    BY <1>1, ModRMType, OneCode

LEMMA ThreeJoined ==
  ASSUME NEW a \in Byte, NEW b \in Byte, NEW c \in Byte
  PROVE  <<a, b>> \o <<c>> = <<a, b, c>>
  <1> DEFINE s == <<a, b>> \o <<c>>
             t == <<a, b, c>>
  <1>1. <<a, b>> \in Seq(Byte) /\ <<c>> \in Seq(Byte) /\ Len(<<a, b>>) = 2 /\ Len(<<c>>) = 1
    OBVIOUS
  <1>2. /\ s \in Seq(Byte) /\ Len(s) = 3
        /\ \A i \in 1..3 : s[i] = IF i <= 2 THEN <<a, b>>[i] ELSE <<c>>[i - 2]
    BY <1>1, ConcatProperties
  <1>3. /\ t \in Seq(Byte) /\ Len(t) = 3
        /\ \A i \in 1..3 : t[i] = IF i <= 2 THEN <<a, b>>[i] ELSE <<c>>[i - 2]
    OBVIOUS
  <1> HIDE DEF s, t
  <1>4. s = t
    BY <1>2, <1>3, SeqEqual
  <1>5. QED
    BY <1>4 DEF s, t

LEMMA WideRegCode ==
  ASSUME NEW o \in Byte, o # 15, NEW r \in 0..15, NEW m \in 0..15
  PROVE  ShowsWide(<<RexW(r, m), o>> \o <<ModRM(3, r, m)>>, o, r, Reg(m))
  <1> DEFINE t == <<ModRM(3, r, m)>>
             n == 1
  <1>1. IsCode(t, n) /\ n \in Nat
    BY RegByteCode
  <1> HIDE DEF t, n
  <1>2. WideOpen(<<RexW(r, m), o>> \o t, o, r, m, t, n)
    BY <1>1, Widened
  <1>3. QED
    BY <1>2, WideReg DEF t, n

LEMMA WidePlainCode ==
  ASSUME NEW o \in Byte, o # 15, NEW r \in 0..15, NEW a, a.r \in 0..15
  PROVE  ShowsWide(<<RexW(r, a.r), o>> \o Plain(r, a), o, r, Mem(a.r, NoIndex, 1, Zero))
  <1> DEFINE t == Plain(r, a)
             n == 1 + Bit(Lo(a.r) \in {4, 5})
  <1>1. IsCode(t, n) /\ n \in Nat
    BY PlainCode, BitType
  <1> HIDE DEF t, n
  <1>2. WideOpen(<<RexW(r, a.r), o>> \o t, o, r, a.r, t, n)
    BY <1>1, Widened
  <1>3. QED
    BY <1>2, WidePlain DEF t

LEMMA WideStoreCode ==
  ASSUME NEW o \in Byte, o # 15, NEW r \in 0..15, NEW a, a.r \in 0..15,
         a.v \in Word8, Below31(a.v)
  PROVE  ShowsWide(<<RexW(r, a.r), o>> \o Store(r, a), o, r, Mem(a.r, NoIndex, 1, Disp(a)))
  <1> DEFINE t == Store(r, a)
             n == 2 + 3 * Bit(~Below7(a.v)) + Bit(Lo(a.r) = 4)
  <1>1. IsCode(t, n) /\ n \in Nat
    BY StoreCode, BitType
  <1> HIDE DEF t, n
  <1>2. WideOpen(<<RexW(r, a.r), o>> \o t, o, r, a.r, t, n)
    BY <1>1, Widened
  <1>3. QED
    BY <1>2, WideStore DEF t

LEMMA WideLoadCode ==
  ASSUME NEW o \in Byte, o # 15, NEW r \in 0..15, NEW a, a.r \in 0..15,
         a.v \in Word8, junk \in Byte
  PROVE  ShowsWide(<<RexW(r, a.r), o>> \o Load(r, a), o, r, Mem(a.r, NoIndex, 1, LoadDisp(a)))
  <1> DEFINE t == Load(r, a)
             n == 1 + Bit(Lo(a.r) = 4) + OfstSz(a)
  <1>1. IsCode(t, n) /\ n \in Nat
    BY LoadCode, OfstSzType, BitType
  <1> HIDE DEF t, n
  <1>2. WideOpen(<<RexW(r, a.r), o>> \o t, o, r, a.r, t, n)
    BY <1>1, Widened
  <1>3. QED
    BY <1>2, WideLoad DEF t

LEMMA WideIndexedCode ==
  ASSUME NEW o \in Byte, o # 15, NEW r \in 0..15, NEW a, a.r \in 0..15,
         a.x \in 0..15, a.f \in {1, 2, 4, 8}
  PROVE  ShowsWide(<<RexW(r, a.r), o>> \o IndexedTail(r, a), o, r, IndexRead(a))
  <1> DEFINE t == IndexedTail(r, a)
             n == 2 + Bit(Lo(a.r) = 5)
  <1>1. IsCode(t, n) /\ n \in Nat
    BY IndexedTailCode, BitType
  <1> HIDE DEF t, n
  <1>2. WideOpen(<<RexW(r, a.r), o>> \o t, o, r, a.r, t, n)
    BY <1>1, Widened
  <1>3. QED
    BY <1>2, WideIndexed DEF t

LEMMA ByteRegCode ==
  ASSUME NEW p, NEW o \in Byte, o \notin 64..79, o # 15, NEW r \in 0..15, NEW m \in 0..15,
         p \/ (r < 8 /\ m < 8)
  PROVE  ShowsByte(Prefix(p, RexB(r, m)) \o <<o>> \o <<ModRM(3, r, m)>>, p, o, r, Reg(m))
  <1> DEFINE t == <<ModRM(3, r, m)>>
             n == 1
  <1>1. IsCode(t, n) /\ n \in Nat
    BY RegByteCode
  <1> HIDE DEF t, n
  <1>2. ByteOpen(Prefix(p, RexB(r, m)) \o <<o>> \o t, p, o, r, m, t, n)
    BY <1>1, Narrowed
  <1>3. QED
    BY <1>2, ByteRegShown DEF t, n

LEMMA BytePlainCode ==
  ASSUME NEW p, NEW o \in Byte, o \notin 64..79, o # 15, NEW r \in 0..15, NEW a, a.r \in 0..15,
         p \/ (r < 8 /\ a.r < 8)
  PROVE  ShowsByte(Prefix(p, RexB(r, a.r)) \o <<o>> \o Plain(r, a), p, o, r,
                   Mem(a.r, NoIndex, 1, Zero))
  <1> DEFINE t == Plain(r, a)
             n == 1 + Bit(Lo(a.r) \in {4, 5})
  <1>1. IsCode(t, n) /\ n \in Nat
    BY PlainCode, BitType
  <1> HIDE DEF t, n
  <1>2. ByteOpen(Prefix(p, RexB(r, a.r)) \o <<o>> \o t, p, o, r, a.r, t, n)
    BY <1>1, Narrowed
  <1>3. QED
    BY <1>2, BytePlain DEF t

LEMMA ByteStoreCode ==
  ASSUME NEW p, NEW o \in Byte, o \notin 64..79, o # 15, NEW r \in 0..15,
         NEW a, a.r \in 0..15, a.v \in Word8,
         Below31(a.v),
         p \/ (r < 8 /\ a.r < 8)
  PROVE  ShowsByte(Prefix(p, RexB(r, a.r)) \o <<o>> \o Store(r, a), p, o, r,
                   Mem(a.r, NoIndex, 1, Disp(a)))
  <1> DEFINE t == Store(r, a)
             n == 2 + 3 * Bit(~Below7(a.v)) + Bit(Lo(a.r) = 4)
  <1>1. IsCode(t, n) /\ n \in Nat
    BY StoreCode, BitType
  <1> HIDE DEF t, n
  <1>2. ByteOpen(Prefix(p, RexB(r, a.r)) \o <<o>> \o t, p, o, r, a.r, t, n)
    BY <1>1, Narrowed
  <1>3. QED
    BY <1>2, ByteStore DEF t

LEMMA ByteLoadCode ==
  ASSUME NEW p, NEW o \in Byte, o \notin 64..79, o # 15, NEW r \in 0..15,
         NEW a, a.r \in 0..15, a.v \in Word8,
         junk \in Byte,
         p \/ (r < 8 /\ a.r < 8)
  PROVE  ShowsByte(Prefix(p, RexB(r, a.r)) \o <<o>> \o Load(r, a), p, o, r,
                   Mem(a.r, NoIndex, 1, LoadDisp(a)))
  <1> DEFINE t == Load(r, a)
             n == 1 + Bit(Lo(a.r) = 4) + OfstSz(a)
  <1>1. IsCode(t, n) /\ n \in Nat
    BY LoadCode, OfstSzType, BitType
  <1> HIDE DEF t, n
  <1>2. ByteOpen(Prefix(p, RexB(r, a.r)) \o <<o>> \o t, p, o, r, a.r, t, n)
    BY <1>1, Narrowed
  <1>3. QED
    BY <1>2, ByteLoad DEF t

LEMMA WideRegImmCode ==
  ASSUME NEW o \in Byte, o # 15, NEW r \in 0..15, NEW m \in 0..15,
         NEW v, NEW k \in Nat, IsCode(v, k)
  PROVE  ShowsWideImm(<<RexW(r, m), o>> \o (<<ModRM(3, r, m)>> \o v), o, r, Reg(m), v, k)
  <1> DEFINE t == <<ModRM(3, r, m)>> \o v
  <1>1. IsCode(t, 1 + k) /\ 1 + k \in Nat
    <2>1. IsCode(<<ModRM(3, r, m)>>, 1) /\ 1 \in Nat
      BY RegByteCode
    <2>2. QED
      BY <2>1, JoinCode
  <1> HIDE DEF t
  <1>2. WideOpen(<<RexW(r, m), o>> \o t, o, r, m, t, 1 + k)
    BY <1>1, Widened
  <1>3. QED
    BY <1>2, WideRegImm DEF t

LEMMA WideStoreImmCode ==
  ASSUME NEW o \in Byte, o # 15, NEW r \in 0..15, NEW a, a.r \in 0..15, a.v \in Word8,
         Below31(a.v), NEW v, NEW k \in Nat, IsCode(v, k)
  PROVE  ShowsWideImm(<<RexW(r, a.r), o>> \o (Store(r, a) \o v), o, r,
                      Mem(a.r, NoIndex, 1, Disp(a)), v, k)
  <1> DEFINE t == Store(r, a) \o v
             n == 2 + 3 * Bit(~Below7(a.v)) + Bit(Lo(a.r) = 4)
  <1>1. IsCode(Store(r, a), n) /\ n \in Nat
    BY StoreCode, BitType
  <1> HIDE DEF n
  <1>2. IsCode(t, n + k) /\ n + k \in Nat
    BY <1>1, JoinCode
  <1> HIDE DEF t
  <1>3. WideOpen(<<RexW(r, a.r), o>> \o t, o, r, a.r, t, n + k)
    BY <1>2, Widened
  <1>4. QED
    BY <1>1, <1>3, WideStoreImm DEF t

----------------------------------------------------------------------------
(* What the instructions mean.                                             *)

ByteOps == {"MOV", "TEST"} \cup AluOps \cup SetOps

LEMMA MeansWide ==
  ASSUME NEW op, NEW d, NEW s, op \notin ByteOps \/ (d.k # "gprb" /\ s.k # "gprb")
  PROVE  Means(Ins(op, d, s)) = Result(op, 64, Place(d, 64), Place(s, 64))
  <1> DEFINE i == Ins(op, d, s)
  <1>1. i.op = op /\ i.d = d /\ i.s = s
    BY DEF Ins
  <1> HIDE DEF i
  <1>2. Width(i) = 64
    BY <1>1, Tables DEF Width, ByteOps
  <1>3. QED
    BY <1>1, <1>2 DEF Means, Result, i

LEMMA MeansByte ==
  ASSUME NEW op \in ByteOps, NEW d, NEW s, d.k = "gprb" \/ s.k = "gprb"
  PROVE  Means(Ins(op, d, s)) = Result(op, 8, Place(d, 8), Place(s, 8))
  <1> DEFINE i == Ins(op, d, s)
  <1>1. i.op = op /\ i.d = d /\ i.s = s
    BY DEF Ins
  <1> HIDE DEF i
  <1>2. Width(i) = 8
    BY <1>1, Tables DEF Width, ByteOps
  <1>3. QED
    BY <1>1, <1>2 DEF Means, Result, i

LEMMA Places ==
  ASSUME NEW w
  PROVE  /\ \A o \in G \cup B : Place(o, w) = Reg(o.r)
         /\ \A o \in A : Place(o, w) = Mem(o.r, NoIndex, 1, Zero)
         /\ \A o \in O(AdrAdds \cup Adr64Adds) : Place(o, w) = Mem(o.r, NoIndex, 1, Disp(o))
         /\ \A o \in O(AdrAdds) : Place(o, w) = Mem(o.r, NoIndex, 1, Disp(o))
         /\ \A o \in X : Place(o, w) = Mem(o.r, o.x, o.f, Zero)
         /\ w # 8 => \A o \in I : Place(o, w) = Imm(o.v)
         /\ w = 8 => \A o \in I : Place(o, w) = Imm(ZeroExt(Low(o.v, 1)))
         /\ \A v : Place(Static(v), w) = Imm(Marked(v))
         /\ Place(None, w) = None
  <1>1. \A o \in G \cup B : Place(o, w) = Reg(o.r)
    BY OperandTypes DEF Place, AdrAdds, Adr64Adds
  <1>2. \A o \in A : Place(o, w) = Mem(o.r, NoIndex, 1, Zero)
    BY OperandTypes DEF Place, AdrAdds, Adr64Adds
  <1>3. \A o \in O(AdrAdds \cup Adr64Adds) : Place(o, w) = Mem(o.r, NoIndex, 1, Disp(o))
    <2> TAKE o \in O(AdrAdds \cup Adr64Adds)
    <2>1. o.k \in AdrAdds \cup Adr64Adds
      BY OffsetTypes
    <2>2. QED
      BY <2>1 DEF Place, AdrAdds, Adr64Adds
  <1>4. \A o \in O(AdrAdds) : Place(o, w) = Mem(o.r, NoIndex, 1, Disp(o))
    <2> TAKE o \in O(AdrAdds)
    <2>1. o.k \in AdrAdds
      BY OffsetTypes
    <2>2. QED
      BY <2>1 DEF Place, AdrAdds, Adr64Adds
  <1>5. \A o \in X : Place(o, w) = Mem(o.r, o.x, o.f, Zero)
    BY OperandTypes DEF Place, AdrAdds, Adr64Adds
  <1>6. /\ w # 8 => \A o \in I : Place(o, w) = Imm(o.v)
        /\ w = 8 => \A o \in I : Place(o, w) = Imm(ZeroExt(Low(o.v, 1)))
    BY OperandTypes DEF Place, AdrAdds, Adr64Adds
  <1>7. \A v : Place(Static(v), w) = Imm(Marked(v))
    BY DEF Place, AdrAdds, Adr64Adds, Static
  <1>8. Place(None, w) = None
    BY DEF Place, AdrAdds, Adr64Adds, None
  <1>9. QED
    BY <1>1, <1>2, <1>3, <1>4, <1>5, <1>6, <1>7, <1>8

LEMMA SameResult ==
  ASSUME NEW op, NEW w, NEW d, NEW s, NEW e, NEW t
  PROVE  Result(op, w, d, s) = Result(op, w, e, t) <=> d = e /\ s = t
  BY DEF Result

LEMMA SameMem ==
  ASSUME NEW b, NEW x, NEW f, NEW u, NEW v
  PROVE  /\ Mem(b, x, f, u) = Mem(b, x, f, v) <=> u = v
         /\ Imm(u) = Imm(v) <=> u = v
  BY DEF Mem, Imm

(* The instruction is read back as itself, or is one of the exceptions. *)
Kept(i) == Decode(Encode(i)) = Means(i) <=> ~Misencoded(i)

LEMMA MisencodedRule ==
  ASSUME NEW op, NEW d, NEW s
  PROVE  Misencoded(Ins(op, d, s)) <=>
           \/ s.k = "idx" /\ s.x >= 8
           \/ op \in AluOps /\ d.k \in AdrAdds /\ s.r >= 8
           \/ op \in AluOps /\ d.k = "gprb" /\ s.k = "imm" /\ d.r # 0
           \/ s.k \in AdrAdds /\ IsZero(s.v) /\ Lo(s.r) = 5 /\ junk # 0
           \/ s.k \in AdrAdds /\ ~Fits32(Disp(s))
           \/ d.k \in Adr64Adds /\ s.k = "imm" /\ ~Fits32(s.v)
           \/ op = "PUSH" /\ d.k = "imm" /\ ~Fits32(d.v)
  <1> DEFINE i == Ins(op, d, s)
  <1>1. i.op = op /\ i.d = d /\ i.s = s
    BY DEF Ins
  <1> HIDE DEF i
  <1>2. QED
    BY <1>1, Tables, Zenon DEF Misencoded, i

----------------------------------------------------------------------------
(* MOV and LEA.                                                            *)

LEMMA MovGprGprKept ==
  ASSUME NEW d \in G, NEW s \in G
  PROVE  Kept(Ins("MOV", d, s))
  <1> DEFINE i == Ins("MOV", d, s)
  <1>1. d.k = "gpr" /\ s.k = "gpr" /\ d.r \in 0..15 /\ s.r \in 0..15
    BY OperandTypes
  <1>2. Encode(i) = <<RexW(s.r, d.r), 137>> \o <<ModRM(3, s.r, d.r)>>
    <2>1. Encode(i) = Mov(d, s)
      BY MovRule
    <2>2. Mov(d, s) = <<RexW(s.r, d.r), 137, ModRM(3, s.r, d.r)>>
      BY <1>1 DEF Mov, MovGpr, AdrAdds
    <2>3. RexW(s.r, d.r) \in Byte /\ ModRM(3, s.r, d.r) \in Byte
      <3>1. 3 \in 0..3
        OBVIOUS
      <3>2. QED
        BY <1>1, <3>1, RexRegsType, ModRMType
    <2>4. 137 \in Byte
      BY DEF Byte
    <2>5. QED
      BY <2>1, <2>2, <2>3, <2>4, ThreeJoined
  <1>3. ShowsWide(Encode(i), 137, s.r, Reg(d.r))
    <2>1. 137 \in Byte /\ 137 # 15
      BY DEF Byte
    <2>2. QED
      BY <1>1, <1>2, <2>1, WideRegCode, ZenonT(60)
  <1>4. Decode(Encode(i)) = Result("MOV", 64, Reg(d.r), Reg(s.r))
    BY <1>1, <1>3, Read137 DEF ShowsWide
  <1>5. Means(i) = Result("MOV", 64, Reg(d.r), Reg(s.r))
    <2>1. Place(d, 64) = Reg(d.r) /\ Place(s, 64) = Reg(s.r)
      BY Places
    <2>2. Means(i) = Result("MOV", 64, Place(d, 64), Place(s, 64))
      BY <1>1, MeansWide
    <2>3. QED
      BY <2>1, <2>2
  <1>6. ~Misencoded(i)
    BY <1>1, MisencodedRule DEF AdrAdds, Adr64Adds
  <1>7. QED
    BY <1>4, <1>5, <1>6 DEF Kept

LEMMA MovGprAdrKept ==
  ASSUME NEW d \in G, NEW s \in A
  PROVE  Kept(Ins("MOV", d, s))
  <1> DEFINE i == Ins("MOV", d, s)
  <1>1. d.k = "gpr" /\ s.k = "adr" /\ d.r \in 0..15 /\ s.r \in 0..15
    BY OperandTypes
  <1>2. Encode(i) = <<RexW(d.r, s.r), 139>> \o Plain(d.r, s)
    <2>1. Encode(i) = Mov(d, s)
      BY MovRule
    <2>2. Mov(d, s) = <<RexW(d.r, s.r), 139>> \o Plain(d.r, s)
      BY <1>1 DEF Mov, MovGpr, AdrAdds
    <2>3. QED
      BY <2>1, <2>2
  <1>3. ShowsWide(Encode(i), 139, d.r, Mem(s.r, NoIndex, 1, Zero))
    <2>1. 139 \in Byte /\ 139 # 15
      BY DEF Byte
    <2>2. QED
      BY <1>1, <1>2, <2>1, WidePlainCode
  <1>4. Decode(Encode(i)) = Result("MOV", 64, Reg(d.r), Mem(s.r, NoIndex, 1, Zero))
    BY <1>1, <1>3, Read139 DEF ShowsWide
  <1>5. Means(i) = Result("MOV", 64, Reg(d.r), Mem(s.r, NoIndex, 1, Zero))
    <2>1. Place(d, 64) = Reg(d.r) /\ Place(s, 64) = Mem(s.r, NoIndex, 1, Zero)
      BY Places
    <2>2. Means(i) = Result("MOV", 64, Place(d, 64), Place(s, 64))
      BY <1>1, MeansWide
    <2>3. QED
      BY <2>1, <2>2
  <1>6. ~Misencoded(i)
    BY <1>1, MisencodedRule DEF AdrAdds, Adr64Adds
  <1>7. QED
    BY <1>4, <1>5, <1>6 DEF Kept

(* With an offset read from memory the exceptions are LoadDispRight's. *)
LEMMA LoadKept ==
  ASSUME junk \in Byte, NEW op, NEW d, NEW s \in O(AdrAdds), NEW w, NEW u,
         op \notin AluOps, op # "PUSH", d.k \in {"gpr", "gprb"},
         Decode(Encode(Ins(op, d, s))) = Result(op, w, u, Mem(s.r, NoIndex, 1, LoadDisp(s))),
         Means(Ins(op, d, s)) = Result(op, w, u, Mem(s.r, NoIndex, 1, Disp(s)))
  PROVE  Kept(Ins(op, d, s))
  <1>1. s.k \in AdrAdds /\ s.r \in 0..15 /\ s.v \in Word8
    BY OffsetTypes
  <1>2. Decode(Encode(Ins(op, d, s))) = Means(Ins(op, d, s)) <=> LoadDisp(s) = Disp(s)
    BY SameResult, SameMem
  <1>3. Misencoded(Ins(op, d, s)) <=>
          \/ IsZero(s.v) /\ Lo(s.r) = 5 /\ junk # 0
          \/ ~Fits32(Disp(s))
    BY <1>1, MisencodedRule DEF AdrAdds, Adr64Adds
  <1>4. LoadDisp(s) = Disp(s) <=>
          ~(IsZero(s.v) /\ Lo(s.r) = 5 /\ junk # 0) /\ Fits32(Disp(s))
    BY <1>1, LoadDispRight
  <1>5. QED
    BY <1>2, <1>3, <1>4, Zenon DEF Kept

LEMMA MovGprLoadKept ==
  ASSUME junk \in Byte, NEW d \in G, NEW s \in O(AdrAdds)
  PROVE  Kept(Ins("MOV", d, s))
  <1> DEFINE i == Ins("MOV", d, s)
  <1>1. /\ d.k = "gpr" /\ s.k \in AdrAdds /\ d.r \in 0..15 /\ s.r \in 0..15 /\ s.v \in Word8
        /\ s.k \notin {"gpr", "adr", "gprb"}
    BY OperandTypes, OffsetTypes DEF AdrAdds
  <1>2. Encode(i) = <<RexW(d.r, s.r), 139>> \o Load(d.r, s)
    <2>1. Encode(i) = Mov(d, s)
      BY MovRule
    <2>2. Mov(d, s) = <<RexW(d.r, s.r), 139>> \o Load(d.r, s)
      BY <1>1 DEF Mov, MovGpr, AdrAdds
    <2>3. QED
      BY <2>1, <2>2
  <1>3. ShowsWide(Encode(i), 139, d.r, Mem(s.r, NoIndex, 1, LoadDisp(s)))
    <2>1. 139 \in Byte /\ 139 # 15
      BY DEF Byte
    <2>2. QED
      BY <1>1, <1>2, <2>1, WideLoadCode, ZenonT(60)
  <1>4. Decode(Encode(i)) = Result("MOV", 64, Reg(d.r), Mem(s.r, NoIndex, 1, LoadDisp(s)))
    BY <1>1, <1>3, Read139 DEF ShowsWide
  <1>5. Means(i) = Result("MOV", 64, Reg(d.r), Mem(s.r, NoIndex, 1, Disp(s)))
    <2>1. Place(d, 64) = Reg(d.r) /\ Place(s, 64) = Mem(s.r, NoIndex, 1, Disp(s))
      BY Places
    <2>2. Means(i) = Result("MOV", 64, Place(d, 64), Place(s, 64))
      BY <1>1, MeansWide
    <2>3. QED
      BY <2>1, <2>2
  <1>6. QED
    BY <1>1, <1>4, <1>5, LoadKept DEF AluOps

LEMMA IndexedSplit ==
  ASSUME NEW o \in Byte, NEW r \in 0..15, NEW a, a.r \in 0..15, a.x \in 0..15
  PROVE  Indexed(o, r, a) = <<RexW(r, a.r), o>> \o IndexedTail(r, a)
  <1> DEFINE m == ModRM(Bit(Lo(a.r) = 5), r, 4)
             b == ModRM(Log2(a.f), a.x, a.r)
             x == RexW(r, a.r)
             d == Prefix(Lo(a.r) = 5, 0)
  <1>1. m \in Byte /\ b \in Byte /\ x \in Byte
    <2>1. Bit(Lo(a.r) = 5) \in 0..3 /\ Log2(a.f) \in 0..3 /\ 4 \in 0..15
      BY BitType DEF Log2, Bit
    <2>2. QED
      BY <2>1, ModRMType, RexRegsType
  <1>2. d \in Seq(Byte)
    <2>1. 0 \in Byte
      BY DEF Byte
    <2>2. QED
      BY <2>1, PrefixCode DEF IsCode
  <1>3. Indexed(o, r, a) = <<x, o, m, b>> \o d /\ IndexedTail(r, a) = <<m, b>> \o d
    BY DEF Indexed, IndexedTail
  <1> HIDE DEF m, b, x, d
  <1>4. <<x, o, m, b>> = <<x, o>> \o <<m, b>>
    <2> DEFINE t == <<x, o>> \o <<m, b>>
               f == <<x, o, m, b>>
    <2>1. <<x, o>> \in Seq(Byte) /\ <<m, b>> \in Seq(Byte) /\ Len(<<x, o>>) = 2 /\ Len(<<m, b>>) = 2
      BY <1>1
    <2>2. /\ t \in Seq(Byte) /\ Len(t) = 4
          /\ \A i \in 1..4 : t[i] = IF i <= 2 THEN <<x, o>>[i] ELSE <<m, b>>[i - 2]
      BY <2>1, ConcatProperties
    <2>3. /\ f \in Seq(Byte) /\ Len(f) = 4
          /\ \A i \in 1..4 : f[i] = IF i <= 2 THEN <<x, o>>[i] ELSE <<m, b>>[i - 2]
      BY <1>1
    <2> HIDE DEF t, f
    <2>4. f = t
      BY <2>2, <2>3, SeqEqual
    <2>5. QED
      BY <2>4 DEF f, t
  <1>5. (<<x, o>> \o <<m, b>>) \o d = <<x, o>> \o (<<m, b>> \o d)
    <2>1. <<x, o>> \in Seq(Byte) /\ <<m, b>> \in Seq(Byte)
      BY <1>1
    <2>2. QED
      BY <1>2, <2>1, ConcatAssociative
  <1>6. QED
    BY <1>3, <1>4, <1>5 DEF x

(* An index register from R8 on is read as the one eight below. *)
LEMMA IndexKept ==
  ASSUME NEW op, NEW d, NEW s \in X, s.x # 4, NEW u,
         op \notin AluOps, op # "PUSH", d.k = "gpr",
         Decode(Encode(Ins(op, d, s))) = Result(op, 64, u, IndexRead(s)),
         Means(Ins(op, d, s)) = Result(op, 64, u, Mem(s.r, s.x, s.f, Zero))
  PROVE  Kept(Ins(op, d, s))
  <1>1. s.k = "idx" /\ s.x \in 0..15
    BY OperandTypes
  <1>2. Decode(Encode(Ins(op, d, s))) = Means(Ins(op, d, s)) <=>
          IndexRead(s) = Mem(s.r, s.x, s.f, Zero)
    BY SameResult
  <1>3. Misencoded(Ins(op, d, s)) <=> s.x >= 8
    BY <1>1, MisencodedRule DEF AdrAdds, Adr64Adds
  <1>4. IndexRead(s) = Mem(s.r, s.x, s.f, Zero) <=> ~(s.x >= 8)
    BY <1>1, IndexReadRight
  <1>5. QED
    BY <1>2, <1>3, <1>4, Zenon DEF Kept

LEMMA MovGprIdxKept ==
  ASSUME NEW d \in G, NEW s \in X, s.x # 4
  PROVE  Kept(Ins("MOV", d, s))
  <1> DEFINE i == Ins("MOV", d, s)
  <1>1. /\ d.k = "gpr" /\ s.k = "idx" /\ d.r \in 0..15 /\ s.r \in 0..15 /\ s.x \in 0..15
        /\ s.f \in {1, 2, 4, 8}
    BY OperandTypes
  <1>2. Encode(i) = <<RexW(d.r, s.r), 139>> \o IndexedTail(d.r, s)
    <2>1. Encode(i) = Mov(d, s)
      BY MovRule
    <2>2. Mov(d, s) = Indexed(139, d.r, s)
      BY <1>1 DEF Mov, MovGpr, AdrAdds
    <2>3. 139 \in Byte
      BY DEF Byte
    <2>4. QED
      BY <1>1, <2>1, <2>2, <2>3, IndexedSplit
  <1>3. ShowsWide(Encode(i), 139, d.r, IndexRead(s))
    <2>1. 139 \in Byte /\ 139 # 15
      BY DEF Byte
    <2>2. QED
      BY <1>1, <1>2, <2>1, WideIndexedCode, ZenonT(60)
  <1>4. Decode(Encode(i)) = Result("MOV", 64, Reg(d.r), IndexRead(s))
    BY <1>1, <1>3, Read139 DEF ShowsWide
  <1>5. Means(i) = Result("MOV", 64, Reg(d.r), Mem(s.r, s.x, s.f, Zero))
    <2>1. Place(d, 64) = Reg(d.r) /\ Place(s, 64) = Mem(s.r, s.x, s.f, Zero)
      BY Places
    <2>2. Means(i) = Result("MOV", 64, Place(d, 64), Place(s, 64))
      BY <1>1, MeansWide
    <2>3. QED
      BY <2>1, <2>2
  <1>6. QED
    BY <1>1, <1>4, <1>5, IndexKept DEF AluOps

(* A register in the opcode, its high bit in the prefix. *)
LEMMA ShortReg ==
  ASSUME NEW r \in 0..15, NEW b \in {80, 88, 176, 184}
  PROVE  /\ b + Lo(r) \in b..(b + 7) /\ (b + Lo(r)) % 8 = Lo(r)
         /\ \A rex \in {Hi(r), 8 + Hi(r)} : 8 * (rex % 2) + ((b + Lo(r)) % 8) = r
  <1>1. Hi(r) \in 0..1 /\ Lo(r) \in 0..7 /\ r = 8 * Hi(r) + Lo(r)
    BY HalvesType
  <1> DEFINE x == Lo(r)
             y == Hi(r)
  <1> HIDE DEF x, y
  <1>2. x \in 0..7 /\ y \in 0..1 /\ r = 8 * y + x
    BY <1>1 DEF x, y
  <1>3. b + x \in b..(b + 7) /\ (b + x) % 8 = x
    BY <1>2
  <1>4. y % 2 = y /\ (8 + y) % 2 = y
    BY <1>2
  <1>5. QED
    BY <1>2, <1>3, <1>4 DEF x, y

LEMMA MovImmRead ==
  ASSUME NEW d, d.r \in 0..15, NEW v \in Word8
  PROVE  Decode(MovImm(d, v)) = Result("MOV", 64, Reg(d.r), Imm(v))
  <1> DEFINE o == 184 + Lo(d.r)
             h == Hi(d.r)
  <1>1. /\ o \in 184..191 /\ h \in 0..1
        /\ 8 * (h % 2) + (o % 8) = d.r /\ 8 * ((8 + h) % 2) + (o % 8) = d.r
    BY ShortReg, HalvesType
  <1>2. o \in Byte /\ o # 15 /\ o \notin 64..79
    BY <1>1 DEF Byte
  <1>3. d.r >= 8 <=> h = 1
    BY HalvesType
  <1>4. CASE Below32(v)
    <2> DEFINE p == d.r >= 8
               rex == IF p THEN 65 - 64 ELSE 0
               t == Low(v, 4)
    <2>1. IsCode(t, 4) /\ 4 \in Nat
      BY LowCode
    <2>2. MovImm(d, v) = Prefix(p, 65) \o <<o>> \o t
      BY <1>4 DEF MovImm
    <2>3. rex = h /\ WidthOf(rex) = 32
      BY <1>1, <1>3 DEF WidthOf
    <2>4. ZeroExt(t) = v
      <3>1. \A i \in 5..8 : v[i] = 0
        BY <1>4 DEF Below32, Below
      <3>2. QED
        BY <3>1, ZeroFits
    <2> HIDE DEF o, h, t, p, rex
    <2>5. Opens(Prefix(p, 65) \o <<o>> \o t, Bit(p), rex, o, 2 + Bit(p), t, 4)
      <3>1. 65 \in 64..79
        OBVIOUS
      <3>2. QED
        BY <1>2, <2>1, <3>1, OpensEither DEF rex
    <2>6. ShowsBare(MovImm(d, v), Bit(p), rex, o, t, 4)
      BY <2>2, <2>5, ShownBare
    <2>7. Decode(MovImm(d, v)) = Result("MOV", 64, Reg(8 * (rex % 2) + (o % 8)), Imm(ZeroExt(t)))
      BY <1>1, <2>3, <2>6, ReadMovD, ZenonT(60)
    <2>8. QED
      BY <1>1, <2>3, <2>4, <2>7
  <1>5. CASE ~Below32(v)
    <2> DEFINE b == Rex(1, 0, 0, h)
    <2>1. IsCode(v, 8) /\ 8 \in Nat
      BY WholeCode
    <2>2. MovImm(d, v) = <<b, o>> \o v
      BY <1>5 DEF MovImm
    <2>3. b \in 64..79 /\ b - 64 = 8 + h /\ WidthOf(b - 64) = 64
      BY <1>1 DEF Rex, WidthOf
    <2> HIDE DEF o, h, b
    <2>4. Opens(<<b, o>> \o v, 1, b - 64, o, 3, v, 8)
      BY <1>2, <2>1, <2>3, OpensPrefixed
    <2>5. ShowsBare(MovImm(d, v), 1, b - 64, o, v, 8)
      BY <2>2, <2>4, ShownBare
    <2>6. Decode(MovImm(d, v)) = Result("MOV", 64, Reg(8 * ((b - 64) % 2) + (o % 8)), Imm(v))
      BY <1>1, <2>3, <2>5, ReadMovQ
    <2>7. QED
      BY <1>1, <2>3, <2>6
  <1>6. QED
    BY <1>4, <1>5

LEMMA MovGprImmKept ==
  ASSUME NEW d \in G, NEW s \in I
  PROVE  Kept(Ins("MOV", d, s))
  <1> DEFINE i == Ins("MOV", d, s)
  <1>1. d.k = "gpr" /\ s.k = "imm" /\ d.r \in 0..15 /\ s.v \in Word8
    BY OperandTypes
  <1>2. Encode(i) = MovImm(d, s.v)
    <2>1. Encode(i) = Mov(d, s)
      BY MovRule
    <2>2. Mov(d, s) = MovImm(d, s.v)
      BY <1>1 DEF Mov, MovGpr, AdrAdds
    <2>3. QED
      BY <2>1, <2>2
  <1>3. Decode(Encode(i)) = Result("MOV", 64, Reg(d.r), Imm(s.v))
    BY <1>1, <1>2, MovImmRead
  <1>4. Means(i) = Result("MOV", 64, Reg(d.r), Imm(s.v))
    <2>1. Place(d, 64) = Reg(d.r) /\ Place(s, 64) = Imm(s.v)
      BY Places
    <2>2. Means(i) = Result("MOV", 64, Place(d, 64), Place(s, 64))
      BY <1>1, MeansWide
    <2>3. QED
      BY <2>1, <2>2
  <1>5. ~Misencoded(i)
    BY <1>1, MisencodedRule DEF AdrAdds, Adr64Adds, AluOps
  <1>6. QED
    BY <1>3, <1>4, <1>5 DEF Kept

LEMMA MovGprStaticKept ==
  ASSUME NEW d \in G, NEW v \in Values
  PROVE  Kept(Ins("MOV", d, Static(v)))
  <1> DEFINE s == Static(v)
             i == Ins("MOV", d, s)
  <1>1. d.k = "gpr" /\ d.r \in 0..15 /\ v \in Word8 /\ s.k = "static" /\ s.v = v
    BY OperandTypes DEF Static
  <1>2. Marked(v) \in Word8
    BY <1>1, MarkedFacts
  <1>3. Place(d, 64) = Reg(d.r) /\ Place(s, 64) = Imm(Marked(v))
    BY Places
  <1> HIDE DEF s
  <1>4. Encode(i) = MovImm(d, Marked(v))
    <2>1. Encode(i) = Mov(d, s)
      BY MovRule
    <2>2. Mov(d, s) = MovImm(d, Marked(v))
      BY <1>1 DEF Mov, MovGpr, AdrAdds
    <2>3. QED
      BY <2>1, <2>2
  <1>5. Decode(Encode(i)) = Result("MOV", 64, Reg(d.r), Imm(Marked(v)))
    BY <1>1, <1>2, <1>4, MovImmRead
  <1>6. Means(i) = Result("MOV", 64, Reg(d.r), Imm(Marked(v)))
    <2>1. Means(i) = Result("MOV", 64, Place(d, 64), Place(s, 64))
      BY <1>1, MeansWide
    <2>2. QED
      BY <1>3, <2>1
  <1>7. ~Misencoded(i)
    BY <1>1, MisencodedRule DEF AdrAdds, Adr64Adds, AluOps
  <1>8. QED
    BY <1>5, <1>6, <1>7 DEF Kept, s

LEMMA LowOne ==
  ASSUME NEW v \in Word8
  PROVE  Low(v, 1) = <<v[1]>> /\ v[1] \in Byte
  <1>1. 1 \in 1..8
    OBVIOUS
  <1>2. Low(v, 1) \in Seq(Byte) /\ Len(Low(v, 1)) = 1 /\ Low(v, 1)[1] = v[1]
    BY <1>1, LowBytes
  <1>3. v[1] \in Byte
    BY DEF Word8
  <1>4. <<v[1]>> \in Seq(Byte) /\ Len(<<v[1]>>) = 1 /\ <<v[1]>>[1] = v[1]
    BY <1>3
  <1> DEFINE a == Low(v, 1)
             b == <<v[1]>>
  <1>5. /\ a \in Seq(Byte) /\ b \in Seq(Byte) /\ Len(a) = Len(b)
        /\ \A i \in 1..Len(a) : a[i] = b[i]
    BY <1>2, <1>4
  <1> HIDE DEF a, b
  <1>6. a = b
    BY <1>5, SeqEqual
  <1>7. QED
    BY <1>3, <1>6 DEF a, b

LEMMA MovGprbAdrKept ==
  ASSUME NEW d \in B, NEW s \in A
  PROVE  Kept(Ins("MOV", d, s))
  <1> DEFINE i == Ins("MOV", d, s)
             p == d.r >= 4 \/ s.r >= 8
  <1>1. d.k = "gprb" /\ s.k = "adr" /\ d.r \in 0..15 /\ s.r \in 0..15
    BY OperandTypes
  <1>2. Encode(i) = Prefix(p, RexB(d.r, s.r)) \o <<138>> \o Plain(d.r, s)
    <2>1. Encode(i) = Mov(d, s)
      BY MovRule
    <2>2. Mov(d, s) = Prefix(p, RexB(d.r, s.r)) \o <<138>> \o Plain(d.r, s)
      BY <1>1 DEF Mov, MovGprb, AdrAdds
    <2>3. QED
      BY <2>1, <2>2
  <1>p. p \/ (d.r < 8 /\ s.r < 8)
    BY <1>1
  <1>q. p \/ d.r < 4 \/ d.r >= 8
    BY <1>1
  <1> HIDE DEF p
  <1>3. ShowsByte(Encode(i), p, 138, d.r, Mem(s.r, NoIndex, 1, Zero))
    <2>1. 138 \in Byte /\ 138 # 15 /\ 138 \notin 64..79
      BY DEF Byte
    <2>2. QED
      BY <1>1, <1>2, <1>p, <2>1, BytePlainCode, ZenonT(60)
  <1>4. Decode(Encode(i)) = Result("MOV", 8, ByteReg(Reg(d.r), Bit(p)),
                                   ByteReg(Mem(s.r, NoIndex, 1, Zero), Bit(p)))
    BY <1>1, <1>3, Read138 DEF ShowsByte
  <1>5. Decode(Encode(i)) = Result("MOV", 8, Reg(d.r), Mem(s.r, NoIndex, 1, Zero))
    BY <1>1, <1>4, <1>q, ByteRegRight
  <1>6. Means(i) = Result("MOV", 8, Reg(d.r), Mem(s.r, NoIndex, 1, Zero))
    <2>1. Place(d, 8) = Reg(d.r) /\ Place(s, 8) = Mem(s.r, NoIndex, 1, Zero)
      BY Places
    <2>2. "MOV" \in ByteOps
      BY DEF ByteOps
    <2>3. Means(i) = Result("MOV", 8, Place(d, 8), Place(s, 8))
      BY <1>1, <2>2, MeansByte
    <2>4. QED
      BY <2>1, <2>3
  <1>7. ~Misencoded(i)
    BY <1>1, MisencodedRule DEF AdrAdds, Adr64Adds, AluOps
  <1>8. QED
    BY <1>5, <1>6, <1>7 DEF Kept

LEMMA MovGprbLoadKept ==
  ASSUME junk \in Byte, NEW d \in B, NEW s \in O(AdrAdds)
  PROVE  Kept(Ins("MOV", d, s))
  <1> DEFINE i == Ins("MOV", d, s)
             p == d.r >= 4 \/ s.r >= 4
  <1>1. /\ d.k = "gprb" /\ s.k \in AdrAdds /\ d.r \in 0..15 /\ s.r \in 0..15 /\ s.v \in Word8
        /\ s.k \notin {"gpr", "adr", "gprb"}
    BY OperandTypes, OffsetTypes DEF AdrAdds
  <1>2. Encode(i) = Prefix(p, RexB(d.r, s.r)) \o <<138>> \o Load(d.r, s)
    <2>1. Encode(i) = Mov(d, s)
      BY MovRule
    <2>2. Mov(d, s) = Prefix(p, RexB(d.r, s.r)) \o <<138>> \o Load(d.r, s)
      BY <1>1 DEF Mov, MovGprb, AdrAdds
    <2>3. QED
      BY <2>1, <2>2
  <1>p. p \/ (d.r < 8 /\ s.r < 8)
    BY <1>1
  <1>q. p \/ d.r < 4 \/ d.r >= 8
    BY <1>1
  <1> HIDE DEF p
  <1>3. ShowsByte(Encode(i), p, 138, d.r, Mem(s.r, NoIndex, 1, LoadDisp(s)))
    <2>1. 138 \in Byte /\ 138 # 15 /\ 138 \notin 64..79
      BY DEF Byte
    <2>2. QED
      BY <1>1, <1>2, <1>p, <2>1, ByteLoadCode, ZenonT(60)
  <1>4. Decode(Encode(i)) = Result("MOV", 8, ByteReg(Reg(d.r), Bit(p)),
                                   ByteReg(Mem(s.r, NoIndex, 1, LoadDisp(s)), Bit(p)))
    BY <1>1, <1>3, Read138 DEF ShowsByte
  <1>5. Decode(Encode(i)) = Result("MOV", 8, Reg(d.r), Mem(s.r, NoIndex, 1, LoadDisp(s)))
    BY <1>1, <1>4, <1>q, ByteRegRight
  <1>6. Means(i) = Result("MOV", 8, Reg(d.r), Mem(s.r, NoIndex, 1, Disp(s)))
    <2>1. Place(d, 8) = Reg(d.r) /\ Place(s, 8) = Mem(s.r, NoIndex, 1, Disp(s))
      BY Places
    <2>2. "MOV" \in ByteOps
      BY DEF ByteOps
    <2>3. Means(i) = Result("MOV", 8, Place(d, 8), Place(s, 8))
      BY <1>1, <2>2, MeansByte
    <2>4. QED
      BY <2>1, <2>3
  <1>7. QED
    BY <1>1, <1>5, <1>6, LoadKept DEF AluOps

LEMMA MovGprbImmKept ==
  ASSUME NEW d \in B, NEW s \in I
  PROVE  Kept(Ins("MOV", d, s))
  <1> DEFINE i == Ins("MOV", d, s)
             p == d.r >= 4
             h == Rex(0, 0, 0, Hi(d.r))
             rex == IF p THEN h - 64 ELSE 0
             o == 176 + Lo(d.r)
             v == <<s.v[1]>>
  <1>1. d.k = "gprb" /\ s.k = "imm" /\ d.r \in 0..15 /\ s.v \in Word8
    BY OperandTypes
  <1>2. /\ o \in 176..183 /\ Hi(d.r) \in 0..1 /\ (d.r >= 8 <=> Hi(d.r) = 1)
        /\ 8 * (Hi(d.r) % 2) + (o % 8) = d.r
    BY <1>1, ShortReg, HalvesType
  <1>3. h \in 64..79 /\ rex = Hi(d.r) /\ o \in Byte /\ o \notin 64..79 /\ o # 15
    BY <1>1, <1>2 DEF Rex, Byte
  <1>4. Low(s.v, 1) = v /\ s.v[1] \in Byte /\ IsCode(v, 1) /\ 1 \in Nat
    BY <1>1, LowOne, OneCode
  <1>5. Encode(i) = Prefix(p, h) \o <<o>> \o v
    <2>1. Encode(i) = Mov(d, s)
      BY MovRule
    <2>2. Mov(d, s) = Prefix(p, h) \o <<o, s.v[1]>>
      BY <1>1 DEF Mov, MovGprb, AdrAdds
    <2>3. <<o, s.v[1]>> = <<o>> \o v
      BY <1>3, <1>4, TwoJoined
    <2>4. Prefix(p, h) \o (<<o>> \o v) = (Prefix(p, h) \o <<o>>) \o v
      <3>1. h \in Byte
        BY <1>3 DEF Byte
      <3>2. Prefix(p, h) \in Seq(Byte) /\ <<o>> \in Seq(Byte) /\ v \in Seq(Byte)
        BY <1>3, <1>4, <3>1, PrefixCode, OneCode DEF IsCode
      <3> HIDE DEF p, h, o, v
      <3>3. QED
        BY <3>2, ConcatAssociative
    <2>5. QED
      BY <2>1, <2>2, <2>3, <2>4
  <1>p. p \/ d.r < 4 \/ d.r >= 8
    BY <1>1
  <1> HIDE DEF p, h, o, v, rex
  <1>7. Opens(Prefix(p, h) \o <<o>> \o v, Bit(p), rex, o, 2 + Bit(p), v, 1)
    BY <1>3, <1>4, OpensEither DEF rex
  <1>8. ShowsBare(Encode(i), Bit(p), rex, o, v, 1)
    BY <1>5, <1>7, ShownBare
  <1>9. Decode(Encode(i)) = Result("MOV", 8, ByteReg(Reg(8 * (rex % 2) + (o % 8)), Bit(p)),
                                   Imm(ZeroExt(v)))
    BY <1>2, <1>8, ReadMovB
  <1>10. Decode(Encode(i)) = Result("MOV", 8, Reg(d.r), Imm(ZeroExt(Low(s.v, 1))))
    BY <1>1, <1>2, <1>3, <1>4, <1>9, <1>p, ByteRegRight
  <1>11. Means(i) = Result("MOV", 8, Reg(d.r), Imm(ZeroExt(Low(s.v, 1))))
    <2>1. Place(d, 8) = Reg(d.r) /\ Place(s, 8) = Imm(ZeroExt(Low(s.v, 1)))
      BY Places
    <2>2. "MOV" \in ByteOps
      BY DEF ByteOps
    <2>3. Means(i) = Result("MOV", 8, Place(d, 8), Place(s, 8))
      BY <1>1, <2>2, MeansByte
    <2>4. QED
      BY <2>1, <2>3
  <1>12. ~Misencoded(i)
    BY <1>1, MisencodedRule DEF AdrAdds, Adr64Adds, AluOps
  <1>13. QED
    BY <1>10, <1>11, <1>12 DEF Kept

LEMMA MovAdrGprKept ==
  ASSUME NEW d \in A, NEW s \in G
  PROVE  Kept(Ins("MOV", d, s))
  <1> DEFINE i == Ins("MOV", d, s)
  <1>1. d.k = "adr" /\ s.k = "gpr" /\ d.r \in 0..15 /\ s.r \in 0..15
    BY OperandTypes
  <1>2. Encode(i) = <<RexW(s.r, d.r), 137>> \o Plain(s.r, d)
    <2>1. Encode(i) = Mov(d, s)
      BY MovRule
    <2>2. Mov(d, s) = <<RexW(s.r, d.r), 137>> \o Plain(s.r, d)
      BY <1>1 DEF Mov, MovAdr
    <2>3. QED
      BY <2>1, <2>2
  <1>3. ShowsWide(Encode(i), 137, s.r, Mem(d.r, NoIndex, 1, Zero))
    <2>1. 137 \in Byte /\ 137 # 15
      BY DEF Byte
    <2>2. QED
      BY <1>1, <1>2, <2>1, WidePlainCode, ZenonT(60)
  <1>4. Decode(Encode(i)) = Result("MOV", 64, Mem(d.r, NoIndex, 1, Zero), Reg(s.r))
    BY <1>1, <1>3, Read137 DEF ShowsWide
  <1>5. Means(i) = Result("MOV", 64, Mem(d.r, NoIndex, 1, Zero), Reg(s.r))
    <2>1. Place(d, 64) = Mem(d.r, NoIndex, 1, Zero) /\ Place(s, 64) = Reg(s.r)
      BY Places
    <2>2. Means(i) = Result("MOV", 64, Place(d, 64), Place(s, 64))
      BY <1>1, MeansWide
    <2>3. QED
      BY <2>1, <2>2
  <1>6. ~Misencoded(i)
    BY <1>1, MisencodedRule DEF AdrAdds, Adr64Adds, AluOps
  <1>7. QED
    BY <1>4, <1>5, <1>6 DEF Kept

LEMMA MovAdrGprbKept ==
  ASSUME NEW d \in A, NEW s \in B
  PROVE  Kept(Ins("MOV", d, s))
  <1> DEFINE i == Ins("MOV", d, s)
             p == s.r >= 4 \/ d.r >= 8
  <1>1. d.k = "adr" /\ s.k = "gprb" /\ d.r \in 0..15 /\ s.r \in 0..15
    BY OperandTypes
  <1>2. Encode(i) = Prefix(p, RexB(s.r, d.r)) \o <<136>> \o Plain(s.r, d)
    <2>1. Encode(i) = Mov(d, s)
      BY MovRule
    <2>2. Mov(d, s) = Prefix(p, RexB(s.r, d.r)) \o <<136>> \o Plain(s.r, d)
      BY <1>1 DEF Mov, MovAdr
    <2>3. QED
      BY <2>1, <2>2
  <1>p. p \/ (s.r < 8 /\ d.r < 8)
    BY <1>1
  <1>q. p \/ s.r < 4 \/ s.r >= 8
    BY <1>1
  <1> HIDE DEF p
  <1>3. ShowsByte(Encode(i), p, 136, s.r, Mem(d.r, NoIndex, 1, Zero))
    <2>1. 136 \in Byte /\ 136 # 15 /\ 136 \notin 64..79
      BY DEF Byte
    <2>2. QED
      BY <1>1, <1>2, <1>p, <2>1, BytePlainCode, ZenonT(60)
  <1>4. Decode(Encode(i)) = Result("MOV", 8, ByteReg(Mem(d.r, NoIndex, 1, Zero), Bit(p)),
                                   ByteReg(Reg(s.r), Bit(p)))
    BY <1>1, <1>3, Read136 DEF ShowsByte
  <1>5. Decode(Encode(i)) = Result("MOV", 8, Mem(d.r, NoIndex, 1, Zero), Reg(s.r))
    BY <1>1, <1>4, <1>q, ByteRegRight
  <1>6. Means(i) = Result("MOV", 8, Mem(d.r, NoIndex, 1, Zero), Reg(s.r))
    <2>1. Place(d, 8) = Mem(d.r, NoIndex, 1, Zero) /\ Place(s, 8) = Reg(s.r)
      BY Places
    <2>2. "MOV" \in ByteOps
      BY DEF ByteOps
    <2>3. Means(i) = Result("MOV", 8, Place(d, 8), Place(s, 8))
      BY <1>1, <2>2, MeansByte
    <2>4. QED
      BY <2>1, <2>3
  <1>7. ~Misencoded(i)
    BY <1>1, MisencodedRule DEF AdrAdds, Adr64Adds, AluOps
  <1>8. QED
    BY <1>5, <1>6, <1>7 DEF Kept

LEMMA MovOfstGprKept ==
  ASSUME NEW d \in O(AdrAdds \cup Adr64Adds), NEW s \in G, Below31(d.v)
  PROVE  Kept(Ins("MOV", d, s))
  <1> DEFINE i == Ins("MOV", d, s)
  <1>1. /\ d.k \in AdrAdds \cup Adr64Adds /\ d.k \notin {"gpr", "gprb", "adr", "imm"}
        /\ s.k = "gpr" /\ d.r \in 0..15 /\ s.r \in 0..15 /\ d.v \in Word8
    BY OperandTypes, OffsetTypes DEF AdrAdds, Adr64Adds
  <1>2. Encode(i) = <<RexW(s.r, d.r), 137>> \o Store(s.r, d)
    <2>1. Encode(i) = Mov(d, s)
      BY MovRule
    <2>2. Mov(d, s) = <<RexW(s.r, d.r), 137>> \o Store(s.r, d)
      BY <1>1 DEF Mov, MovAdrAdd
    <2>3. QED
      BY <2>1, <2>2
  <1>3. ShowsWide(Encode(i), 137, s.r, Mem(d.r, NoIndex, 1, Disp(d)))
    <2>1. 137 \in Byte /\ 137 # 15
      BY DEF Byte
    <2>2. QED
      BY <1>1, <1>2, <2>1, WideStoreCode, ZenonT(60)
  <1>4. Decode(Encode(i)) = Result("MOV", 64, Mem(d.r, NoIndex, 1, Disp(d)), Reg(s.r))
    BY <1>1, <1>3, Read137 DEF ShowsWide
  <1>5. Means(i) = Result("MOV", 64, Mem(d.r, NoIndex, 1, Disp(d)), Reg(s.r))
    <2>1. Place(d, 64) = Mem(d.r, NoIndex, 1, Disp(d)) /\ Place(s, 64) = Reg(s.r)
      BY Places
    <2>2. Means(i) = Result("MOV", 64, Place(d, 64), Place(s, 64))
      BY <1>1, MeansWide
    <2>3. QED
      BY <2>1, <2>2
  <1>6. ~Misencoded(i)
    BY <1>1, MisencodedRule DEF AdrAdds, Adr64Adds, AluOps
  <1>7. QED
    BY <1>4, <1>5, <1>6 DEF Kept

LEMMA MovOfstGprbKept ==
  ASSUME NEW d \in O(AdrAdds \cup Adr64Adds), NEW s \in B, Below31(d.v)
  PROVE  Kept(Ins("MOV", d, s))
  <1> DEFINE i == Ins("MOV", d, s)
             p == s.r >= 4 \/ d.r >= 8
  <1>1. /\ d.k \in AdrAdds \cup Adr64Adds /\ d.k \notin {"gpr", "gprb", "adr", "imm"}
        /\ s.k = "gprb" /\ d.r \in 0..15 /\ s.r \in 0..15 /\ d.v \in Word8
    BY OperandTypes, OffsetTypes DEF AdrAdds, Adr64Adds
  <1>2. Encode(i) = Prefix(p, RexB(s.r, d.r)) \o <<136>> \o Store(s.r, d)
    <2>1. Encode(i) = Mov(d, s)
      BY MovRule
    <2>2. Mov(d, s) = Prefix(p, RexB(s.r, d.r)) \o <<136>> \o Store(s.r, d)
      BY <1>1 DEF Mov, MovAdrAdd
    <2>3. QED
      BY <2>1, <2>2
  <1>p. p \/ (s.r < 8 /\ d.r < 8)
    BY <1>1
  <1>q. p \/ s.r < 4 \/ s.r >= 8
    BY <1>1
  <1> HIDE DEF p
  <1>3. ShowsByte(Encode(i), p, 136, s.r, Mem(d.r, NoIndex, 1, Disp(d)))
    <2>1. 136 \in Byte /\ 136 # 15 /\ 136 \notin 64..79
      BY DEF Byte
    <2>2. QED
      BY <1>1, <1>2, <1>p, <2>1, ByteStoreCode, ZenonT(60)
  <1>4. Decode(Encode(i)) = Result("MOV", 8, ByteReg(Mem(d.r, NoIndex, 1, Disp(d)), Bit(p)),
                                   ByteReg(Reg(s.r), Bit(p)))
    BY <1>1, <1>3, Read136 DEF ShowsByte
  <1>5. Decode(Encode(i)) = Result("MOV", 8, Mem(d.r, NoIndex, 1, Disp(d)), Reg(s.r))
    BY <1>1, <1>4, <1>q, ByteRegRight
  <1>6. Means(i) = Result("MOV", 8, Mem(d.r, NoIndex, 1, Disp(d)), Reg(s.r))
    <2>1. Place(d, 8) = Mem(d.r, NoIndex, 1, Disp(d)) /\ Place(s, 8) = Reg(s.r)
      BY Places
    <2>2. "MOV" \in ByteOps
      BY DEF ByteOps
    <2>3. Means(i) = Result("MOV", 8, Place(d, 8), Place(s, 8))
      BY <1>1, <2>2, MeansByte
    <2>4. QED
      BY <2>1, <2>3
  <1>7. ~Misencoded(i)
    BY <1>1, MisencodedRule DEF AdrAdds, Adr64Adds, AluOps
  <1>8. QED
    BY <1>5, <1>6, <1>7 DEF Kept

LEMMA RexRegs ==
  ASSUME NEW r \in 0..15
  PROVE  /\ Rex(1, 0, 0, Hi(r)) = RexW(0, r)
         /\ \A n \in 0..7 : Rex(1, 0, 0, Hi(r)) = RexW(n, r)
  <1>1. \A n \in 0..7 : Hi(n) = 0
    BY DEF Hi
  <1>2. QED
    BY <1>1 DEF RexW

LEMMA MovOfstImmKept ==
  ASSUME NEW d \in O(Adr64Adds), NEW s \in I, Below31(d.v)
  PROVE  Kept(Ins("MOV", d, s))
  <1> DEFINE i == Ins("MOV", d, s)
             v == Low(s.v, 4)
  <1>1. /\ d.k \in Adr64Adds /\ d.k \notin {"gpr", "gprb", "adr", "imm", "adradd", "adrsub"}
        /\ s.k = "imm" /\ d.r \in 0..15 /\ d.v \in Word8 /\ s.v \in Word8 /\ 0 \in 0..15
    BY OperandTypes, OffsetTypes DEF Adr64Adds
  <1>2. IsCode(v, 4) /\ 4 \in Nat
    BY <1>1, LowCode
  <1>3. Encode(i) = <<RexW(0, d.r), 199>> \o (Store(0, d) \o v)
    <2>1. Encode(i) = Mov(d, s)
      BY MovRule
    <2>2. Mov(d, s) = <<Rex(1, 0, 0, Hi(d.r)), 199>> \o Store(0, d) \o v
      BY <1>1 DEF Mov, MovAdrAdd
    <2>3. Rex(1, 0, 0, Hi(d.r)) = RexW(0, d.r)
      BY <1>1, RexRegs
    <2>4. (<<RexW(0, d.r), 199>> \o Store(0, d)) \o v = <<RexW(0, d.r), 199>> \o (Store(0, d) \o v)
      <3>1. RexW(0, d.r) \in Byte /\ 199 \in Byte
        <4>1. RexW(0, d.r) \in Byte
          BY <1>1, RexRegsType
        <4>2. 199 \in Byte
          BY DEF Byte
        <4>3. QED
          BY <4>1, <4>2
      <3>2. <<RexW(0, d.r), 199>> \in Seq(Byte)
        BY <3>1
      <3>3. Store(0, d) \in Seq(Byte)
        BY <1>1, StoreCode DEF IsCode
      <3>4. v \in Seq(Byte)
        BY <1>2 DEF IsCode
      <3> HIDE DEF v
      <3>5. QED
        BY <3>2, <3>3, <3>4, ConcatAssociative
    <2>5. QED
      BY <2>1, <2>2, <2>3, <2>4
  <1>4. ShowsWideImm(Encode(i), 199, 0, Mem(d.r, NoIndex, 1, Disp(d)), v, 4)
    <2>1. 199 \in Byte /\ 199 # 15
      BY DEF Byte
    <2> HIDE DEF v
    <2>2. QED
      BY <1>1, <1>2, <1>3, <2>1, WideStoreImmCode, ZenonT(60)
  <1>5. Decode(Encode(i)) = Result("MOV", 64, Mem(d.r, NoIndex, 1, Disp(d)), Imm(SignExt(v)))
    BY <1>1, <1>4, Read199 DEF ShowsWideImm
  <1>6. Means(i) = Result("MOV", 64, Mem(d.r, NoIndex, 1, Disp(d)), Imm(s.v))
    <2>1. d \in O(AdrAdds \cup Adr64Adds)
      BY DEF O
    <2>2. Place(d, 64) = Mem(d.r, NoIndex, 1, Disp(d)) /\ Place(s, 64) = Imm(s.v)
      <3>1. 64 # 8
        OBVIOUS
      <3>2. Place(d, 64) = Mem(d.r, NoIndex, 1, Disp(d))
        BY <2>1, Places
      <3>3. Place(s, 64) = Imm(s.v)
        BY <3>1, Places
      <3>4. QED
        BY <3>2, <3>3
    <2>3. Means(i) = Result("MOV", 64, Place(d, 64), Place(s, 64))
      BY <1>1, MeansWide
    <2>4. QED
      BY <2>2, <2>3
  <1>7. Misencoded(i) <=> ~Fits32(s.v)
    BY <1>1, MisencodedRule DEF AdrAdds, AluOps
  <1>8. Decode(Encode(i)) = Means(i) <=> SignExt(v) = s.v
    BY <1>5, <1>6, SameResult, SameMem
  <1>9. QED
    BY <1>7, <1>8 DEF Kept, Fits32

LEMMA LeaLoadKept ==
  ASSUME junk \in Byte, NEW d \in G, NEW s \in O(AdrAdds)
  PROVE  Kept(Ins("LEA", d, s))
  <1> DEFINE i == Ins("LEA", d, s)
  <1>1. /\ d.k = "gpr" /\ s.k \in AdrAdds /\ s.k # "idx" /\ d.r \in 0..15
        /\ s.r \in 0..15 /\ s.v \in Word8
    BY OperandTypes, OffsetTypes DEF AdrAdds
  <1>2. Encode(i) = <<RexW(d.r, s.r), 141>> \o Load(d.r, s)
    <2>1. Encode(i) = Lea(d, s)
      BY LeaRule
    <2>2. Lea(d, s) = <<RexW(d.r, s.r), 141>> \o Load(d.r, s)
      BY <1>1 DEF Lea
    <2>3. QED
      BY <2>1, <2>2
  <1>3. ShowsWide(Encode(i), 141, d.r, Mem(s.r, NoIndex, 1, LoadDisp(s)))
    <2>1. 141 \in Byte /\ 141 # 15
      BY DEF Byte
    <2>2. QED
      BY <1>1, <1>2, <2>1, WideLoadCode, ZenonT(60)
  <1>4. Decode(Encode(i)) = Result("LEA", 64, Reg(d.r), Mem(s.r, NoIndex, 1, LoadDisp(s)))
    BY <1>1, <1>3, Read141 DEF ShowsWide
  <1>5. Means(i) = Result("LEA", 64, Reg(d.r), Mem(s.r, NoIndex, 1, Disp(s)))
    <2>1. Place(d, 64) = Reg(d.r) /\ Place(s, 64) = Mem(s.r, NoIndex, 1, Disp(s))
      BY Places
    <2>2. Means(i) = Result("LEA", 64, Place(d, 64), Place(s, 64))
      BY <1>1, MeansWide DEF ByteOps, AluOps, SetOps
    <2>3. QED
      BY <2>1, <2>2
  <1>6. QED
    BY <1>1, <1>4, <1>5, LoadKept DEF AluOps

LEMMA LeaIdxKept ==
  ASSUME NEW d \in G, NEW s \in X, s.x # 4
  PROVE  Kept(Ins("LEA", d, s))
  <1> DEFINE i == Ins("LEA", d, s)
  <1>1. /\ d.k = "gpr" /\ s.k = "idx" /\ d.r \in 0..15 /\ s.r \in 0..15 /\ s.x \in 0..15
        /\ s.f \in {1, 2, 4, 8}
    BY OperandTypes
  <1>2. Encode(i) = <<RexW(d.r, s.r), 141>> \o IndexedTail(d.r, s)
    <2>1. Encode(i) = Lea(d, s)
      BY LeaRule
    <2>2. Lea(d, s) = Indexed(141, d.r, s)
      BY <1>1 DEF Lea
    <2>3. 141 \in Byte
      BY DEF Byte
    <2>4. QED
      BY <1>1, <2>1, <2>2, <2>3, IndexedSplit
  <1>3. ShowsWide(Encode(i), 141, d.r, IndexRead(s))
    <2>1. 141 \in Byte /\ 141 # 15
      BY DEF Byte
    <2>2. QED
      BY <1>1, <1>2, <2>1, WideIndexedCode, ZenonT(60)
  <1>4. Decode(Encode(i)) = Result("LEA", 64, Reg(d.r), IndexRead(s))
    BY <1>1, <1>3, Read141 DEF ShowsWide
  <1>5. Means(i) = Result("LEA", 64, Reg(d.r), Mem(s.r, s.x, s.f, Zero))
    <2>1. Place(d, 64) = Reg(d.r) /\ Place(s, 64) = Mem(s.r, s.x, s.f, Zero)
      BY Places
    <2>2. Means(i) = Result("LEA", 64, Place(d, 64), Place(s, 64))
      BY <1>1, MeansWide DEF ByteOps, AluOps, SetOps
    <2>3. QED
      BY <2>1, <2>2
  <1>6. QED
    BY <1>1, <1>4, <1>5, IndexKept DEF AluOps

----------------------------------------------------------------------------
(* The other instructions.                                                 *)

LEMMA TestGprKept ==
  ASSUME NEW d \in G, NEW s \in G
  PROVE  Kept(Ins("TEST", d, s))
  <1> DEFINE i == Ins("TEST", d, s)
  <1>1. d.k = "gpr" /\ s.k = "gpr" /\ d.r \in 0..15 /\ s.r \in 0..15
    BY OperandTypes
  <1>2. Encode(i) = <<RexW(s.r, d.r), 133>> \o <<ModRM(3, s.r, d.r)>>
    <2>1. Encode(i) = Test(d, s)
      BY TestRule
    <2>2. Test(d, s) = <<RexW(s.r, d.r), 133>> \o <<ModRM(3, s.r, d.r)>>
      BY <1>1 DEF Test
    <2>3. QED
      BY <2>1, <2>2
  <1>3. ShowsWide(Encode(i), 133, s.r, Reg(d.r))
    <2>1. 133 \in Byte /\ 133 # 15
      BY DEF Byte
    <2>2. QED
      BY <1>1, <1>2, <2>1, WideRegCode, ZenonT(60)
  <1>4. Decode(Encode(i)) = Result("TEST", 64, Reg(d.r), Reg(s.r))
    BY <1>1, <1>3, Read133 DEF ShowsWide
  <1>5. Means(i) = Result("TEST", 64, Reg(d.r), Reg(s.r))
    <2>1. Place(d, 64) = Reg(d.r) /\ Place(s, 64) = Reg(s.r)
      BY Places
    <2>2. Means(i) = Result("TEST", 64, Place(d, 64), Place(s, 64))
      BY <1>1, MeansWide
    <2>3. QED
      BY <2>1, <2>2
  <1>6. ~Misencoded(i)
    BY <1>1, MisencodedRule DEF AdrAdds, Adr64Adds, AluOps
  <1>7. QED
    BY <1>4, <1>5, <1>6 DEF Kept

LEMMA TestGprbKept ==
  ASSUME NEW d \in B, NEW s \in B
  PROVE  Kept(Ins("TEST", d, s))
  <1> DEFINE i == Ins("TEST", d, s)
             p == d.r >= 4 \/ s.r >= 4
  <1>1. d.k = "gprb" /\ s.k = "gprb" /\ d.r \in 0..15 /\ s.r \in 0..15
    BY OperandTypes
  <1>2. Encode(i) = Prefix(p, RexB(s.r, d.r)) \o <<132>> \o <<ModRM(3, s.r, d.r)>>
    <2>1. Encode(i) = Test(d, s)
      BY TestRule
    <2>2. Test(d, s) = Prefix(p, RexB(s.r, d.r)) \o <<132>> \o <<ModRM(3, s.r, d.r)>>
      BY <1>1 DEF Test
    <2>3. QED
      BY <2>1, <2>2
  <1>p. p \/ (s.r < 8 /\ d.r < 8)
    BY <1>1
  <1>q. (p \/ s.r < 4 \/ s.r >= 8) /\ (p \/ d.r < 4 \/ d.r >= 8)
    BY <1>1
  <1> HIDE DEF p
  <1>3. ShowsByte(Encode(i), p, 132, s.r, Reg(d.r))
    <2>1. 132 \in Byte /\ 132 # 15 /\ 132 \notin 64..79
      BY DEF Byte
    <2>2. QED
      BY <1>1, <1>2, <1>p, <2>1, ByteRegCode, ZenonT(60)
  <1>4. Decode(Encode(i)) = Result("TEST", 8, ByteReg(Reg(d.r), Bit(p)),
                                   ByteReg(Reg(s.r), Bit(p)))
    BY <1>1, <1>3, Read132 DEF ShowsByte
  <1>5. Decode(Encode(i)) = Result("TEST", 8, Reg(d.r), Reg(s.r))
    BY <1>1, <1>4, <1>q, ByteRegRight
  <1>6. Means(i) = Result("TEST", 8, Reg(d.r), Reg(s.r))
    <2>1. Place(d, 8) = Reg(d.r) /\ Place(s, 8) = Reg(s.r)
      BY Places
    <2>2. "TEST" \in ByteOps
      BY DEF ByteOps
    <2>3. Means(i) = Result("TEST", 8, Place(d, 8), Place(s, 8))
      BY <1>1, <2>2, MeansByte
    <2>4. QED
      BY <2>1, <2>3
  <1>7. ~Misencoded(i)
    BY <1>1, MisencodedRule DEF AdrAdds, Adr64Adds, AluOps
  <1>8. QED
    BY <1>5, <1>6, <1>7 DEF Kept

(* Instructions with no exception are read back as they are meant. *)
LEMMA AlwaysKept ==
  ASSUME NEW op, NEW d, NEW s, op \notin AluOps, d.k \in {"gpr", "gprb", "none"},
         s.k \in {"gpr", "gprb", "imm", "none"}, ~(op = "PUSH" /\ d.k = "imm"),
         NEW w, NEW a, NEW b,
         Decode(Encode(Ins(op, d, s))) = Result(op, w, a, b),
         Means(Ins(op, d, s)) = Result(op, w, a, b)
  PROVE  Kept(Ins(op, d, s))
  <1>1. ~Misencoded(Ins(op, d, s))
    BY MisencodedRule DEF AdrAdds, Adr64Adds
  <1>2. QED
    BY <1>1 DEF Kept

(* An operation told by the digit n in the place of a register. *)
LEMMA DigitCode ==
  ASSUME NEW o \in Byte, o # 15, NEW n \in 0..7, NEW m \in 0..15
  PROVE  ShowsWide(<<Rex(1, 0, 0, Hi(m)), o, ModRM(3, n, m)>>, o, n, Reg(m))
  <1>1. Rex(1, 0, 0, Hi(m)) = RexW(n, m) /\ n \in 0..15
    BY RexRegs
  <1>2. RexW(n, m) \in Byte /\ ModRM(3, n, m) \in Byte
    <2>1. 3 \in 0..3
      OBVIOUS
    <2>2. QED
      BY <1>1, <2>1, RexRegsType, ModRMType
  <1>3. <<RexW(n, m), o>> \o <<ModRM(3, n, m)>> = <<RexW(n, m), o, ModRM(3, n, m)>>
    BY <1>2, ThreeJoined
  <1>4. ShowsWide(<<RexW(n, m), o>> \o <<ModRM(3, n, m)>>, o, n, Reg(m))
    BY <1>1, WideRegCode
  <1>5. QED
    BY <1>1, <1>3, <1>4

(* The same with k bytes v behind it. *)
LEMMA DigitImmCode ==
  ASSUME NEW o \in Byte, o # 15, NEW n \in 0..7, NEW m \in 0..15,
         NEW v, NEW k \in Nat, IsCode(v, k)
  PROVE  ShowsWideImm(<<Rex(1, 0, 0, Hi(m)), o, ModRM(3, n, m)>> \o v, o, n, Reg(m), v, k)
  <1> DEFINE x == RexW(n, m)
             y == ModRM(3, n, m)
  <1>1. Rex(1, 0, 0, Hi(m)) = x /\ n \in 0..15
    BY RexRegs
  <1>2. x \in Byte /\ y \in Byte
    <2>1. 3 \in 0..3
      OBVIOUS
    <2>2. QED
      BY <1>1, <2>1, RexRegsType, ModRMType
  <1>3. ShowsWideImm(<<x, o>> \o (<<y>> \o v), o, n, Reg(m), v, k)
    BY <1>1, WideRegImmCode
  <1> HIDE DEF x, y
  <1>4. <<x, o>> \o <<y>> = <<x, o, y>>
    BY <1>2, ThreeJoined
  <1>5. (<<x, o>> \o <<y>>) \o v = <<x, o>> \o (<<y>> \o v)
    <2>1. <<x, o>> \in Seq(Byte) /\ <<y>> \in Seq(Byte)
      BY <1>2
    <2>2. v \in Seq(Byte)
      BY DEF IsCode
    <2>3. QED
      BY <2>1, <2>2, ConcatAssociative
  <1>6. ShowsWideImm(<<x, o, y>> \o v, o, n, Reg(m), v, k)
    BY <1>3, <1>4, <1>5
  <1>7. QED
    BY <1>1, <1>6 DEF y

LEMMA UnaryKept ==
  ASSUME NEW op \in UnaryOps, NEW d \in G
  PROVE  Kept(Ins(op, d, None))
  <1> DEFINE s == None
             i == Ins(op, d, s)
             n == [INC |-> 0, DEC |-> 1, NOT |-> 2, NEG |-> 3][op]
             o == IF op \in {"INC", "DEC"} THEN 255 ELSE 247
  <1>1. /\ d.k = "gpr" /\ d.r \in 0..15 /\ s.k = "none" /\ op \notin AluOps \cup ByteOps
        /\ op # "PUSH"
    BY OperandTypes DEF None, UnaryOps, AluOps, ByteOps, SetOps
  <1>2. n \in 0..7 /\ Lo(n) = n /\ o \in Byte /\ o # 15
    BY DEF UnaryOps, Byte, Lo
  <1>3. Encode(i) = <<Rex(1, 0, 0, Hi(d.r)), o, ModRM(3, n, d.r)>>
    <2>1. Encode(i) = Unary(op, d)
      BY UnaryRule
    <2>2. QED
      BY <2>1 DEF Unary
  <1>4. ShowsWide(Encode(i), o, n, Reg(d.r))
    <2> HIDE DEF n, o, i
    <2>1. QED
      BY <1>1, <1>2, <1>3, DigitCode
  <1>5. Means(i) = Result(op, 64, Reg(d.r), None)
    <2>1. Place(d, 64) = Reg(d.r) /\ Place(s, 64) = None
      BY Places
    <2>2. Means(i) = Result(op, 64, Place(d, 64), Place(s, 64))
      BY <1>1, MeansWide
    <2>3. QED
      BY <2>1, <2>2
  <1>6. Decode(Encode(i)) = Result(op, 64, Reg(d.r), None)
    <2>0. n \in 0..15
      BY <1>2
    <2>1. CASE op \in {"INC", "DEC"}
      <3>1. o = 255 /\ (IF Lo(n) = 0 THEN "INC" ELSE "DEC") = op
        BY <1>2, <2>1
      <3> HIDE DEF n, o, i
      <3>2. Decode(Encode(i)) = Result(IF Lo(n) = 0 THEN "INC" ELSE "DEC", 64, Reg(d.r), None)
        BY <1>4, <2>0, <3>1, Read255 DEF ShowsWide
      <3>3. QED
        BY <3>1, <3>2
    <2>2. CASE op \notin {"INC", "DEC"}
      <3>1. o = 247 /\ UnaryNames[n + 1] = op
        BY <2>2 DEF UnaryOps, UnaryNames
      <3> HIDE DEF n, o, i
      <3>2. Decode(Encode(i)) = Result(UnaryNames[Lo(n) + 1], 64, Reg(d.r), None)
        BY <1>4, <2>0, <3>1, Read247 DEF ShowsWide
      <3>3. QED
        BY <1>2, <3>1, <3>2
    <2>3. QED
      BY <2>1, <2>2
  <1>7. QED
    <2>1. Kept(Ins(op, d, s))
      BY <1>1, <1>5, <1>6, AlwaysKept
    <2>2. QED
      BY <2>1

LEMMA MulDivKept ==
  ASSUME NEW op \in MulOps, NEW d \in G
  PROVE  Kept(Ins(op, d, None))
  <1> DEFINE s == None
             i == Ins(op, d, s)
             n == [MUL |-> 4, DIV |-> 6, IDIV |-> 7][op]
             o == 247
  <1>1. /\ d.k = "gpr" /\ d.r \in 0..15 /\ s.k = "none" /\ op \notin AluOps \cup ByteOps
        /\ op # "PUSH"
    BY OperandTypes DEF None, MulOps, AluOps, ByteOps, SetOps
  <1>2. n \in 0..7 /\ n \in 0..15 /\ Lo(n) = n /\ o \in Byte /\ o # 15
    BY DEF MulOps, Byte, Lo
  <1>3. Encode(i) = <<Rex(1, 0, 0, Hi(d.r)), o, ModRM(3, n, d.r)>>
    <2>1. Encode(i) = MulDiv(op, d)
      BY MulRule
    <2>2. QED
      BY <2>1 DEF MulDiv
  <1>4. UnaryNames[n + 1] = op
    BY DEF MulOps, UnaryNames
  <1>5. Means(i) = Result(op, 64, Reg(d.r), None)
    <2>1. Place(d, 64) = Reg(d.r) /\ Place(s, 64) = None
      BY Places
    <2>2. Means(i) = Result(op, 64, Place(d, 64), Place(s, 64))
      BY <1>1, MeansWide
    <2>3. QED
      BY <2>1, <2>2
  <1>6. Decode(Encode(i)) = Result(op, 64, Reg(d.r), None)
    <2> HIDE DEF n, o, i
    <2>1. ShowsWide(Encode(i), o, n, Reg(d.r))
      BY <1>1, <1>2, <1>3, DigitCode
    <2>2. Decode(Encode(i)) = Result(UnaryNames[Lo(n) + 1], 64, Reg(d.r), None)
      BY <1>2, <2>1, Read247 DEF ShowsWide, o
    <2>3. QED
      BY <1>2, <1>4, <2>2
  <1>7. QED
    <2>1. Kept(Ins(op, d, s))
      BY <1>1, <1>5, <1>6, AlwaysKept
    <2>2. QED
      BY <2>1

(* A shift by CL or by an immediate of less than 64. *)
LEMMA ShiftKept ==
  ASSUME NEW op \in ShiftOps, NEW d \in G, NEW s \in {Gprb(1)} \cup I,
         s.k = "imm" => Below(s.v, 1, 64)
  PROVE  Kept(Ins(op, d, s))
  <1> DEFINE i == Ins(op, d, s)
             n == ShiftDigit[op]
             b == s.v[1]
             h == Rex(1, 0, 0, Hi(d.r))
             m == ModRM(3, n, d.r)
  <1>1. d.k = "gpr" /\ d.r \in 0..15 /\ op \notin AluOps \cup ByteOps /\ op # "PUSH"
    BY OperandTypes DEF ShiftOps, AluOps, ByteOps, SetOps
  <1>2. /\ n \in 0..7 /\ n \in 0..15 /\ Lo(n) = n
        /\ ShiftNames[n + 1] = op
    BY DEF ShiftOps, Lo, ShiftDigit, ShiftNames
  <1>o. \A o \in {193, 209, 211} : o \in Byte /\ o # 15
    BY DEF Byte
  <1>3. Encode(i) = Shift(op, d, s) /\ Place(d, 64) = Reg(d.r) /\ 64 # 8
    BY ShiftRule, Places
  <1>4. s.k # "gprb" => s.k = "imm" /\ s.v \in Word8 /\ s \in I
    BY OperandTypes DEF Gprb
  <1>5. CASE s.k = "gprb"
    <2>1. s.r = 1 /\ Place(s, 64) = Reg(1)
      <3>1. s = Gprb(1)
        BY <1>5, OperandTypes
      <3>2. QED
        BY <3>1 DEF Gprb, Place, AdrAdds, Adr64Adds
    <2>2. Encode(i) = <<h, 211, m>>
      BY <1>3, <1>5 DEF Shift
    <2>3. Means(i) = Result(op, 64, Reg(d.r), Reg(1))
      <3>1. Means(i) = Result(op, 64, Place(d, 64), Place(s, 64))
        BY <1>1, MeansWide
      <3>2. QED
        BY <1>3, <2>1, <3>1
    <2>4. Decode(Encode(i)) = Result(op, 64, Reg(d.r), Reg(1))
      <3>1. ShowsWide(<<h, 211, m>>, 211, n, Reg(d.r))
        <4> DEFINE o == 211
        <4>1. o \in Byte /\ o # 15
          BY <1>o
        <4> HIDE DEF n, o
        <4>2. ShowsWide(<<h, o, m>>, o, n, Reg(d.r))
          BY <1>1, <1>2, <4>1, DigitCode
        <4>3. QED
          BY <4>2 DEF o
      <3> HIDE DEF n, i, h, m
      <3>2. Decode(Encode(i)) = Result(ShiftNames[Lo(n) + 1], 64, Reg(d.r), Reg(1))
        BY <1>2, <2>2, <3>1, Read211 DEF ShowsWide
      <3>3. QED
        BY <1>2, <3>2
    <2>5. QED
      BY <1>1, <1>5, <2>3, <2>4, AlwaysKept
  <1>6. CASE s.k = "imm"
    <2>1. s \in I /\ s.v \in Word8 /\ b \in 0..63 /\ b \in Byte /\ \A j \in 2..8 : s.v[j] = 0
      BY <1>4, <1>6, SMTT(60) DEF Below, Word8, Byte
    <2>2. Means(i) = Result(op, 64, Reg(d.r), Imm(s.v))
      <3>1. Means(i) = Result(op, 64, Place(d, 64), Place(s, 64))
        BY <1>1, <1>6, MeansWide
      <3>2. Place(s, 64) = Imm(s.v)
        BY <1>3, <2>1, Places
      <3>3. QED
        BY <1>3, <3>1, <3>2
    <2>3. ZeroExt(<<b>>) = s.v
      <3>1. Low(s.v, 1) = <<b>> /\ 1 \in 1..8
        BY <2>1, LowOne
      <3>2. \A j \in (1 + 1)..8 : s.v[j] = 0
        BY <2>1
      <3>3. ZeroExt(Low(s.v, 1)) = s.v
        BY <2>1, <3>1, <3>2, ZeroFits
      <3>4. QED
        BY <3>1, <3>3
    <2>4. CASE b = 1
      <3>1. Encode(i) = <<h, 209, m>>
        BY <1>3, <1>6, <2>4 DEF Shift
      <3>2. ShowsWide(<<h, 209, m>>, 209, n, Reg(d.r))
        <4> DEFINE o == 209
        <4>1. o \in Byte /\ o # 15
          BY <1>o
        <4> HIDE DEF n, o
        <4>2. ShowsWide(<<h, o, m>>, o, n, Reg(d.r))
          BY <1>1, <1>2, <4>1, DigitCode
        <4>3. QED
          BY <4>2 DEF o
      <3> HIDE DEF n, i, h, m
      <3>3. Decode(Encode(i)) = Result(ShiftNames[Lo(n) + 1], 64, Reg(d.r), Imm(ZeroExt(<<1>>)))
        BY <1>2, <3>1, <3>2, Read209 DEF ShowsWide
      <3>4. Decode(Encode(i)) = Result(op, 64, Reg(d.r), Imm(s.v))
        BY <1>2, <2>3, <2>4, <3>3
      <3>5. QED
        BY <1>1, <1>6, <2>2, <3>4, AlwaysKept DEF i
    <2>5. CASE b # 1
      <3>1. Encode(i) = Append(<<h, 193, m>>, b)
        BY <1>3, <1>6, <2>5 DEF Shift
      <3>2. Append(<<h, 193, m>>, b) = <<h, 193, m>> \o <<b>>
        <4>1. h \in Byte /\ m \in Byte
          <5>1. Hi(d.r) \in 0..1 /\ 1 \in 0..1 /\ 0 \in 0..1 /\ 3 \in 0..3
            BY <1>1, HalvesType
          <5> HIDE DEF n
          <5>2. QED
            BY <1>1, <1>2, <5>1, RexType, ModRMType
        <4>2. <<h, 193, m>> \in Seq(Byte)
          BY <1>o, <4>1
        <4> HIDE DEF h, m, b
        <4>3. QED
          BY <2>1, <4>2, AppendIsConcat
      <3>3. IsCode(<<b>>, 1) /\ 1 \in Nat
        BY <2>1, OneCode
      <3>4. ShowsWideImm(<<h, 193, m>> \o <<b>>, 193, n, Reg(d.r), <<b>>, 1)
        <4> DEFINE o == 193
        <4>1. o \in Byte /\ o # 15
          BY <1>o
        <4> HIDE DEF n, o, b
        <4>2. ShowsWideImm(<<h, o, m>> \o <<b>>, o, n, Reg(d.r), <<b>>, 1)
          BY <1>1, <1>2, <3>3, <4>1, DigitImmCode
        <4>3. QED
          BY <4>2 DEF o
      <3>5. ShowsWideImm(Encode(i), 193, n, Reg(d.r), <<b>>, 1)
        BY <3>1, <3>2, <3>4
      <3> DEFINE v == <<b>>
      <3> HIDE DEF n, i, h, m, v
      <3>5a. Decode(Encode(i)) = Result(ShiftNames[Lo(n) + 1], 64, Reg(d.r), Imm(ZeroExt(v)))
        BY <1>2, <3>5, Read193 DEF ShowsWideImm, v
      <3>5b. v = <<b>>
        BY DEF v
      <3>6. Decode(Encode(i)) = Result(op, 64, Reg(d.r), Imm(s.v))
        BY <1>2, <2>3, <3>5a, <3>5b
      <3>7. QED
        BY <1>1, <1>6, <2>2, <3>6, AlwaysKept DEF i
    <2>6. QED
      BY <2>4, <2>5
  <1>7. QED
    BY <1>4, <1>5, <1>6

LEMMA OneTwoJoined ==
  ASSUME NEW a \in Byte, NEW b \in Byte, NEW c \in Byte
  PROVE  <<a>> \o <<b, c>> = <<a, b, c>>
  <1> DEFINE f == <<a>>
             g == <<b, c>>
             h == <<a, b, c>>
             z == f \o g
  <1>1. f \in Seq(Byte) /\ g \in Seq(Byte) /\ Len(f) = 1 /\ Len(g) = 2
    OBVIOUS
  <1>2. /\ z \in Seq(Byte) /\ Len(z) = 3
        /\ \A j \in 1..3 : z[j] = IF j <= 1 THEN f[j] ELSE g[j - 1]
    BY <1>1, ConcatProperties
  <1>3. /\ h \in Seq(Byte) /\ Len(h) = 3
        /\ \A j \in 1..3 : h[j] = IF j <= 1 THEN f[j] ELSE g[j - 1]
    OBVIOUS
  <1> HIDE DEF f, g, h, z
  <1>4. h = z
    BY <1>2, <1>3, SeqEqual
  <1>5. QED
    BY <1>4 DEF f, g, h, z

LEMMA FourJoined ==
  ASSUME NEW a \in Byte, NEW b \in Byte, NEW c \in Byte, NEW d \in Byte
  PROVE  <<a, b, c>> \o <<d>> = <<a, b, c, d>>
  <1> DEFINE f == <<a, b, c>>
             g == <<d>>
             h == <<a, b, c, d>>
             z == f \o g
  <1>1. f \in Seq(Byte) /\ g \in Seq(Byte) /\ Len(f) = 3 /\ Len(g) = 1
    OBVIOUS
  <1>2. /\ z \in Seq(Byte) /\ Len(z) = 4
        /\ \A j \in 1..4 : z[j] = IF j <= 3 THEN f[j] ELSE g[j - 3]
    BY <1>1, ConcatProperties
  <1>3. /\ h \in Seq(Byte) /\ Len(h) = 4
        /\ \A j \in 1..4 : h[j] = IF j <= 3 THEN f[j] ELSE g[j - 3]
    OBVIOUS
  <1> HIDE DEF f, g, h, z
  <1>4. h = z
    BY <1>2, <1>3, SeqEqual
  <1>5. QED
    BY <1>4 DEF f, g, h, z

(* The opcodes of two bytes. *)
LEMMA WideTwoCode ==
  ASSUME NEW o \in Byte, NEW r \in 0..15, NEW m \in 0..15
  PROVE  ShowsWide(<<RexW(r, m), 15, o, ModRM(3, r, m)>>, 256 + o, r, Reg(m))
  <1> DEFINE b == RexW(r, m)
             y == ModRM(3, r, m)
             t == <<y>>
  <1>1. b \in 64..79 /\ Fields(b - 64, r, m) /\ WidthOf(b - 64) = 64 /\ b \in Byte
    BY WideFields, RexRegsType
  <1>2. IsCode(t, 1) /\ 1 \in Nat /\ y \in Byte
    <2>1. 3 \in 0..3
      OBVIOUS
    <2>2. QED
      BY <2>1, RegByteCode, ModRMType
  <1> HIDE DEF b, y
  <1>3. <<b, 15, o>> \o t = <<b, 15, o, y>>
    <2>1. b \in Byte /\ 15 \in Byte /\ y \in Byte
      BY <1>1, <1>2 DEF Byte
    <2>2. QED
      BY <2>1, FourJoined
  <1> HIDE DEF t
  <1>4. Opens(<<b, 15, o>> \o t, 1, b - 64, 256 + o, 4, t, 1)
    BY <1>1, <1>2, OpensPrefixedTwo
  <1>5. WideOpen(<<b, 15, o>> \o t, 256 + o, r, m, t, 1)
    BY <1>1, <1>4, Zenon DEF WideOpen
  <1>6. ShowsWide(<<b, 15, o>> \o t, 256 + o, r, Reg(m))
    BY <1>5, WideReg DEF t, y
  <1>7. QED
    BY <1>3, <1>6 DEF b, y

LEMMA ImulKept ==
  ASSUME NEW d \in G, NEW s \in G
  PROVE  Kept(Ins("IMUL", d, s))
  <1> DEFINE i == Ins("IMUL", d, s)
  <1>1. d.k = "gpr" /\ s.k = "gpr" /\ d.r \in 0..15 /\ s.r \in 0..15
    BY OperandTypes
  <1>2. Encode(i) = <<RexW(d.r, s.r), 15, 175, ModRM(3, d.r, s.r)>>
    <2>1. Encode(i) = Imul(d, s)
      BY WideRule
    <2>2. QED
      BY <2>1 DEF Imul
  <1>3. ShowsWide(Encode(i), 431, d.r, Reg(s.r))
    <2> DEFINE o == 175
    <2>1. o \in Byte
      BY DEF Byte
    <2>2. 256 + o = 431
      OBVIOUS
    <2> HIDE DEF o
    <2>3. ShowsWide(<<RexW(d.r, s.r), 15, o, ModRM(3, d.r, s.r)>>, 256 + o, d.r, Reg(s.r))
      BY <1>1, <2>1, WideTwoCode
    <2>4. Encode(i) = <<RexW(d.r, s.r), 15, o, ModRM(3, d.r, s.r)>>
      BY <1>2 DEF o
    <2>5. QED
      BY <2>2, <2>3, <2>4, Zenon
  <1>4. Decode(Encode(i)) = Result("IMUL", 64, Reg(d.r), Reg(s.r))
    BY <1>1, <1>3, Read431 DEF ShowsWide
  <1>5. Means(i) = Result("IMUL", 64, Reg(d.r), Reg(s.r))
    <2>1. Place(d, 64) = Reg(d.r) /\ Place(s, 64) = Reg(s.r)
      BY Places
    <2>2. Means(i) = Result("IMUL", 64, Place(d, 64), Place(s, 64))
      BY <1>1, MeansWide
    <2>3. QED
      BY <2>1, <2>2
  <1>6. QED
    BY <1>1, <1>4, <1>5, AlwaysKept DEF AluOps

LEMMA MovzxKept ==
  ASSUME NEW d \in G, NEW s \in B
  PROVE  Kept(Ins("MOVZX", d, s))
  <1> DEFINE i == Ins("MOVZX", d, s)
  <1>1. d.k = "gpr" /\ s.k = "gprb" /\ d.r \in 0..15 /\ s.r \in 0..15
    BY OperandTypes
  <1>2. Encode(i) = <<RexW(d.r, s.r), 15, 182, ModRM(3, d.r, s.r)>>
    <2>1. Encode(i) = Movzx(d, s)
      BY WideRule
    <2>2. QED
      BY <2>1 DEF Movzx
  <1>3. ShowsWide(Encode(i), 438, d.r, Reg(s.r))
    <2> DEFINE o == 182
    <2>1. o \in Byte
      BY DEF Byte
    <2>2. 256 + o = 438
      OBVIOUS
    <2> HIDE DEF o
    <2>3. ShowsWide(<<RexW(d.r, s.r), 15, o, ModRM(3, d.r, s.r)>>, 256 + o, d.r, Reg(s.r))
      BY <1>1, <2>1, WideTwoCode, ZenonT(60)
    <2>4. Encode(i) = <<RexW(d.r, s.r), 15, o, ModRM(3, d.r, s.r)>>
      BY <1>2 DEF o
    <2>5. QED
      BY <2>2, <2>3, <2>4, Zenon
  <1>4. Decode(Encode(i)) = Result("MOVZX", 64, Reg(d.r), ByteReg(Reg(s.r), 1))
    BY <1>1, <1>3, Read438 DEF ShowsWide
  <1>5. Decode(Encode(i)) = Result("MOVZX", 64, Reg(d.r), Reg(s.r))
    BY <1>1, <1>4, ByteRegRight
  <1>6. Means(i) = Result("MOVZX", 64, Reg(d.r), Reg(s.r))
    <2>1. Place(d, 64) = Reg(d.r) /\ Place(s, 64) = Reg(s.r)
      BY Places
    <2>2. Means(i) = Result("MOVZX", 64, Place(d, 64), Place(s, 64))
      BY MeansWide DEF ByteOps, AluOps, SetOps
    <2>3. QED
      BY <2>1, <2>2
  <1>7. QED
    BY <1>1, <1>5, <1>6, AlwaysKept DEF AluOps

(* A register, perhaps behind the prefix 65, and nothing else. *)
LEMMA PushRegRead ==
  ASSUME NEW b \in {80, 88}, NEW r \in 0..15
  PROVE  \E p, rex : /\ ShowsBare(Prefix(r >= 8, 65) \o <<b + Lo(r)>>, p, rex, b + Lo(r), <<>>, 0)
                     /\ 8 * (rex % 2) + ((b + Lo(r)) % 8) = r
  <1> DEFINE o == b + Lo(r)
             p == r >= 8
             rex == IF p THEN 65 - 64 ELSE 0
             t == <<>>
             e == Prefix(p, 65) \o <<o>>
  <1>1. o \in Byte /\ o \notin 64..79 /\ o # 15
    <2>1. Lo(r) \in 0..7
      BY HalvesType
    <2>2. QED
      BY <2>1 DEF Byte
  <1>2. rex = Hi(r) /\ 8 * (Hi(r) % 2) + (o % 8) = r
    <2>1. Hi(r) \in 0..1 /\ (Hi(r) = 1 <=> r >= 8)
      BY HalvesType
    <2>2. rex = Hi(r)
      BY <2>1
    <2>3. b \in {80, 88, 176, 184}
      OBVIOUS
    <2>4. QED
      BY <2>2, <2>3, ShortReg
  <1>3. IsCode(t, 0) /\ 0 \in Nat
    BY NoCode
  <1>4. e \o t = e
    <2>1. 65 \in Byte
      BY DEF Byte
    <2>2. IsCode(Prefix(p, 65), Bit(p)) /\ Bit(p) \in Nat
      BY <2>1, PrefixCode, BitType
    <2>3. IsCode(<<o>>, 1) /\ 1 \in Nat
      BY <1>1, OneCode
    <2>4. IsCode(e, Bit(p) + 1) /\ Bit(p) + 1 \in Nat
      BY <2>2, <2>3, JoinCode
    <2> HIDE DEF e
    <2>5. QED
      BY <2>4, NoneJoined
  <1> HIDE DEF o, p, rex, t
  <1>5. Opens(Prefix(p, 65) \o <<o>> \o t, Bit(p), rex, o, 2 + Bit(p), t, 0)
    <2>1. 65 \in 64..79
      OBVIOUS
    <2>2. QED
      BY <1>1, <1>3, <2>1, OpensEither DEF rex
  <1>6. ShowsBare(e, Bit(p), rex, o, t, 0)
    BY <1>4, <1>5, ShownBare
  <1>7. QED
    BY <1>2, <1>6 DEF o, p, t

LEMMA PushGprKept ==
  ASSUME NEW op \in {"PUSH", "POP"}, NEW d \in G
  PROVE  Kept(Ins(op, d, None))
  <1> DEFINE s == None
             i == Ins(op, d, s)
             b == 80 + 8 * Bit(op = "POP")
             o == b + Lo(d.r)
  <1>1. d.k = "gpr" /\ d.r \in 0..15 /\ s.k = "none" /\ op \notin AluOps \cup ByteOps
    BY OperandTypes DEF None, AluOps, ByteOps, SetOps
  <1>2. b \in {80, 88} /\ b = IF op = "POP" THEN 88 ELSE 80
    BY DEF Bit
  <1>3. Encode(i) = Prefix(d.r >= 8, 65) \o <<o>>
    <2>1. Encode(i) = PushPop(op, d)
      BY PushPopRule
    <2>2. QED
      BY <1>1, <2>1 DEF PushPop
  <1> HIDE DEF b
  <1>4. PICK p, rex : /\ ShowsBare(Encode(i), p, rex, o, <<>>, 0)
                      /\ 8 * (rex % 2) + (o % 8) = d.r
    <2>1. \E p, rex :
            /\ ShowsBare(Prefix(d.r >= 8, 65) \o <<b + Lo(d.r)>>, p, rex, b + Lo(d.r), <<>>, 0)
            /\ 8 * (rex % 2) + ((b + Lo(d.r)) % 8) = d.r
      BY <1>1, <1>2, PushRegRead
    <2>2. QED
      BY <1>3, <2>1, Zenon
  <1>5. o \in b..(b + 7)
    <2>1. b \in {80, 88, 176, 184}
      BY <1>2
    <2>2. QED
      BY <1>1, <2>1, ShortReg
  <1>6. Decode(Encode(i)) = Result(op, 64, Reg(d.r), None)
    <2> HIDE DEF o, i
    <2>1. CASE op = "PUSH"
      <3>1. o \in 80..87
        BY <1>2, <1>5, <2>1
      <3>2. QED
        BY <1>4, <2>1, <3>1, ReadPush
    <2>2. CASE op = "POP"
      <3>1. o \in 88..95
        BY <1>2, <1>5, <2>2
      <3>2. QED
        BY <1>4, <2>2, <3>1, ReadPop
    <2>3. QED
      BY <2>1, <2>2
  <1>7. Means(i) = Result(op, 64, Reg(d.r), None)
    <2>1. Place(d, 64) = Reg(d.r) /\ Place(s, 64) = None
      BY Places
    <2>2. Means(i) = Result(op, 64, Place(d, 64), Place(s, 64))
      BY <1>1, MeansWide
    <2>3. QED
      BY <2>1, <2>2
  <1>8. Kept(Ins(op, d, s))
    BY <1>1, <1>6, <1>7, AlwaysKept
  <1>9. QED
    BY <1>8

LEMMA PushImmKept ==
  ASSUME NEW d \in I
  PROVE  Kept(Ins("PUSH", d, None))
  <1> DEFINE s == None
             i == Ins("PUSH", d, s)
             u == IF Below7(d.v) THEN Low(d.v, 1) ELSE Low(d.v, 4)
  <1>1. d.k = "imm" /\ d.v \in Word8 /\ s.k = "none"
    BY OperandTypes DEF None
  <1>2. Encode(i) = PushPop("PUSH", d)
    BY PushPopRule
  <1>3. Decode(Encode(i)) = Result("PUSH", 64, Imm(SignExt(u)), None)
    <2>1. CASE Below7(d.v)
      <3> DEFINE o == 106
      <3>1. Low(d.v, 1) = <<d.v[1]>> /\ d.v[1] \in Byte /\ IsCode(u, 1) /\ 1 \in Nat
        BY <1>1, <2>1, LowOne, OneCode
      <3>2. o \in Byte /\ o \notin 64..79 /\ o # 15
        BY DEF Byte
      <3>3. Encode(i) = <<o>> \o u
        <4>1. Encode(i) = <<o, d.v[1]>>
          BY <1>1, <1>2, <2>1 DEF PushPop
        <4>2. <<o>> \o <<d.v[1]>> = <<o, d.v[1]>>
          BY <3>1, <3>2, TwoJoined
        <4>3. QED
          BY <2>1, <3>1, <4>1, <4>2
      <3> HIDE DEF o, u, i
      <3>4. Opens(<<o>> \o u, 0, 0, o, 2, u, 1)
        BY <3>1, <3>2, OpensBare
      <3>5. ShowsBare(Encode(i), 0, 0, o, u, 1)
        BY <3>3, <3>4, ShownBare
      <3>6. QED
        BY <3>5, Read106 DEF o
    <2>2. CASE ~Below7(d.v)
      <3> DEFINE o == 104
      <3>1. IsCode(u, 4) /\ 4 \in Nat
        BY <1>1, <2>2, LowCode
      <3>2. o \in Byte /\ o \notin 64..79 /\ o # 15
        BY DEF Byte
      <3>3. Encode(i) = <<o>> \o u
        BY <1>1, <1>2, <2>2 DEF PushPop
      <3> HIDE DEF o, u, i
      <3>4. Opens(<<o>> \o u, 0, 0, o, 2, u, 4)
        BY <3>1, <3>2, OpensBare
      <3>5. ShowsBare(Encode(i), 0, 0, o, u, 4)
        BY <3>3, <3>4, ShownBare
      <3>6. QED
        BY <3>5, Read104 DEF o
    <2>3. QED
      BY <2>1, <2>2
  <1>4. Means(i) = Result("PUSH", 64, Imm(d.v), None)
    <2>1. 64 # 8
      OBVIOUS
    <2>2. Place(d, 64) = Imm(d.v) /\ Place(s, 64) = None
      BY <2>1, Places
    <2>3. Means(i) = Result("PUSH", 64, Place(d, 64), Place(s, 64))
      BY <1>1, MeansWide
    <2>4. QED
      BY <2>2, <2>3
  <1>5. Decode(Encode(i)) = Means(i) <=> SignExt(u) = d.v
    BY <1>3, <1>4, SameResult, SameMem
  <1>6. Misencoded(i) <=> ~Fits32(d.v)
    BY <1>1, MisencodedRule DEF AdrAdds, Adr64Adds, AluOps
  <1>7. SignExt(u) = d.v <=> Fits32(d.v)
    <2>1. CASE Below7(d.v)
      <3>1. 1 \in 1..8 /\ 4 \in 1..8
        OBVIOUS
      <3>2. SignExt(Low(d.v, 1)) = d.v
        BY <1>1, <2>1, <3>1, BelowFits DEF Below7
      <3>3. Below(d.v, 4, 128)
        BY <2>1 DEF Below7, Below
      <3>4. Fits32(d.v)
        BY <1>1, <3>1, <3>3, BelowFits DEF Fits32
      <3>5. QED
        BY <2>1, <3>2, <3>4
    <2>2. CASE ~Below7(d.v)
      BY <2>2 DEF Fits32
    <2>3. QED
      BY <2>1, <2>2
  <1>8. Kept(i)
    BY <1>5, <1>6, <1>7 DEF Kept
  <1>9. QED
    BY <1>8

LEMMA OpensEitherTwo ==
  ASSUME NEW p, NEW b \in 64..79, NEW o \in Byte, NEW t, NEW n \in Nat, IsCode(t, n)
  PROVE  Opens(Prefix(p, b) \o <<15, o>> \o t, Bit(p), IF p THEN b - 64 ELSE 0, 256 + o,
               3 + Bit(p), t, n)
  <1>1. b \in Byte /\ 15 \in Byte /\ 2 \in Nat
    BY DEF Byte
  <1>2. <<b>> \o <<15, o>> = <<b, 15, o>>
    BY <1>1, OneTwoJoined
  <1>3. <<>> \o <<15, o>> = <<15, o>>
    <2>1. IsCode(<<15, o>>, 2)
      BY <1>1, TwoCode
    <2>2. QED
      BY <1>1, <2>1, NoneJoined
  <1>4. CASE p
    <2>1. Prefix(p, b) = <<b>> /\ Bit(p) = 1 /\ 3 + Bit(p) = 4
      BY <1>4 DEF Prefix, Bit
    <2>2. Opens(<<b, 15, o>> \o t, 1, b - 64, 256 + o, 4, t, n)
      BY OpensPrefixedTwo
    <2>3. QED
      BY <1>2, <1>4, <2>1, <2>2, Zenon
  <1>5. CASE ~p
    <2>1. Prefix(p, b) = <<>> /\ Bit(p) = 0 /\ 3 + Bit(p) = 3
      BY <1>5 DEF Prefix, Bit
    <2>2. Opens(<<15, o>> \o t, 0, 0, 256 + o, 3, t, n)
      BY OpensBareTwo
    <2>3. QED
      BY <1>3, <1>5, <2>1, <2>2, Zenon
  <1>6. QED
    BY <1>4, <1>5

LEMMA SetCcKept ==
  ASSUME NEW op \in SetOps, NEW d \in B
  PROVE  Kept(Ins(op, d, None))
  <1> DEFINE s == None
             i == Ins(op, d, s)
             p == d.r >= 4
             b == RexB(0, d.r)
             o == 144 + Condition[op]
             y == ModRM(3, 0, d.r)
             t == <<y>>
             rex == IF p THEN b - 64 ELSE 0
  <1>1. /\ d.k = "gprb" /\ d.r \in 0..15 /\ s.k = "none" /\ op \notin AluOps
        /\ op # "PUSH" /\ op \in ByteOps /\ 0 \in 0..15 /\ 3 \in 0..3
    BY OperandTypes DEF None, AluOps, ByteOps, SetOps
  <1>2. o \in Byte /\ o \in 144..159 /\ ConditionNames[o - 143] = op
    BY DEF SetOps, Condition, ConditionNames, Byte
  <1>3. b \in 64..79 /\ Fields(rex, 0, d.r) /\ b \in Byte
    <2>1. p \/ (0 < 8 /\ d.r < 8)
      BY <1>1
    <2>2. QED
      BY <1>1, <2>1, ByteFields, RexRegsType, SMTT(60)
  <1>4. y \in Byte /\ IsCode(t, 1) /\ 1 \in Nat
    BY <1>1, ModRMType, OneCode
  <1>5. Encode(i) = Prefix(p, b) \o <<15, o>> \o t
    <2>1. Encode(i) = SetCc(op, d)
      BY SetCcRule
    <2>2. SetCc(op, d) = Prefix(p, b) \o <<15, o, y>>
      <3>1. y = 192 + Lo(d.r)
        <4>1. Lo(0) = 0 /\ Lo(d.r) \in 0..7
          BY <1>1, HalvesType DEF Lo
        <4> DEFINE z == Lo(d.r)
        <4> HIDE DEF z
        <4>2. 64 * 3 + 8 * Lo(0) + z = 192 + z
          BY <4>1 DEF z
        <4>3. QED
          BY <4>2 DEF ModRM, z
      <3>2. b = Rex(0, 0, 0, Hi(d.r))
        <4>1. Hi(0) = 0
          BY DEF Hi
        <4>2. QED
          BY <4>1 DEF RexB
      <3> HIDE DEF y, b
      <3>3. QED
        BY <3>1, <3>2 DEF SetCc
    <2> HIDE DEF y, b, o, i, p
    <2>3. 15 \in Byte
      BY DEF Byte
    <2>4. <<15, o>> \o <<y>> = <<15, o, y>>
      BY <1>2, <1>4, <2>3, ThreeJoined
    <2>5. (Prefix(p, b) \o <<15, o>>) \o t = Prefix(p, b) \o (<<15, o>> \o t)
      <3>1. Prefix(p, b) \in Seq(Byte) /\ t \in Seq(Byte)
        BY <1>3, <1>4, PrefixCode DEF IsCode
      <3>2. <<15, o>> \in Seq(Byte)
        BY <1>2, <2>3
      <3> HIDE DEF t
      <3>3. QED
        BY <3>1, <3>2, ConcatAssociative
    <2>6. QED
      BY <2>1, <2>2, <2>4, <2>5
  <1>p. p \/ d.r < 4 \/ d.r >= 8
    BY <1>1
  <1> HIDE DEF p, b, o, t, rex, i
  <1>6. Opens(Prefix(p, b) \o <<15, o>> \o t, Bit(p), rex, 256 + o, 3 + Bit(p), t, 1)
    BY <1>2, <1>3, <1>4, OpensEitherTwo, ZenonT(60) DEF rex
  <1>7. Shows(Encode(i), Bit(p), rex, 256 + o, 0, Reg(d.r))
    <2>1. Opens(Encode(i), Bit(p), rex, 256 + o, 3 + Bit(p), <<ModRM(3, 0, d.r)>>, 1)
      BY <1>5, <1>6 DEF t
    <2>2. QED
      BY <1>1, <1>3, <2>1, ShownReg
  <1>8. Decode(Encode(i)) = Result(op, 8, ByteReg(Reg(d.r), Bit(p)), None)
    <2> DEFINE q == 256 + o
    <2>1. q \in 400..415 /\ ConditionNames[q - 399] = op
      <3>1. q \in 400..415 /\ q - 399 = o - 143
        BY <1>2
      <3>2. QED
        BY <1>2, <3>1
    <2> HIDE DEF q
    <2>2. Shows(Encode(i), Bit(p), rex, q, 0, Reg(d.r))
      BY <1>7 DEF q
    <2>3. Decode(Encode(i)) = Result(ConditionNames[q - 399], 8, ByteReg(Reg(d.r), Bit(p)), None)
      BY <1>1, <2>1, <2>2, ReadSet
    <2>4. QED
      BY <2>1, <2>3
  <1>9. Decode(Encode(i)) = Result(op, 8, Reg(d.r), None)
    BY <1>1, <1>8, <1>p, ByteRegRight
  <1>10. Means(i) = Result(op, 8, Reg(d.r), None)
    <2>1. Place(d, 8) = Reg(d.r) /\ Place(s, 8) = None
      BY Places
    <2>2. Means(i) = Result(op, 8, Place(d, 8), Place(s, 8))
      BY <1>1, MeansByte DEF i
    <2>3. QED
      BY <2>1, <2>2
  <1>11. Kept(Ins(op, d, s))
    BY <1>1, <1>9, <1>10, AlwaysKept DEF i
  <1>12. QED
    BY <1>11

LEMMA FixedKept ==
  ASSUME NEW op \in FixedOps
  PROVE  Kept(Ins(op, None, None))
  <1> DEFINE s == None
             i == Ins(op, s, s)
  <1>1. s.k = "none" /\ op \notin AluOps \cup ByteOps /\ op # "PUSH"
    BY DEF None, AluOps, ByteOps, SetOps, FixedOps
  <1>2. Encode(i) = Fixed[op]
    BY FixedRule
  <1>3. ASSUME op = "RET" PROVE Decode(Encode(i)) = Result(op, 64, None, None)
    <2> DEFINE o == 195
               t == <<>>
    <2>1. o \in Byte /\ o \notin 64..79 /\ o # 15
      BY DEF Byte
    <2>2. IsCode(t, 0) /\ 0 \in Nat
      BY NoCode
    <2>3. Encode(i) = <<o>> \o t
      <3>1. Encode(i) = <<o>>
        BY <1>2, <1>3 DEF Fixed
      <3>2. IsCode(<<o>>, 1) /\ 1 \in Nat
        BY <2>1, OneCode
      <3>3. <<o>> \o t = <<o>>
        BY <3>2, NoneJoined
      <3>4. QED
        BY <3>1, <3>3
    <2> HIDE DEF o, t, i
    <2>4. Opens(<<o>> \o t, 0, 0, o, 2, t, 0)
      BY <2>1, <2>2, OpensBare
    <2>5. ShowsBare(Encode(i), 0, 0, o, t, 0)
      BY <2>3, <2>4, ShownBare
    <2>6. QED
      BY <1>3, <2>5, Read195 DEF o

  <1>4. ASSUME op = "NOP" PROVE Decode(Encode(i)) = Result(op, 64, None, None)
    <2> DEFINE o == 144
               t == <<>>
    <2>1. o \in Byte /\ o \notin 64..79 /\ o # 15
      BY DEF Byte
    <2>2. IsCode(t, 0) /\ 0 \in Nat
      BY NoCode
    <2>3. Encode(i) = <<o>> \o t
      <3>1. Encode(i) = <<o>>
        BY <1>2, <1>4 DEF Fixed
      <3>2. IsCode(<<o>>, 1) /\ 1 \in Nat
        BY <2>1, OneCode
      <3>3. <<o>> \o t = <<o>>
        BY <3>2, NoneJoined
      <3>4. QED
        BY <3>1, <3>3
    <2> HIDE DEF o, t, i
    <2>4. Opens(<<o>> \o t, 0, 0, o, 2, t, 0)
      BY <2>1, <2>2, OpensBare
    <2>5. ShowsBare(Encode(i), 0, 0, o, t, 0)
      BY <2>3, <2>4, ShownBare
    <2>6. QED
      BY <1>4, <2>5, Read144 DEF o

  <1>5. ASSUME op = "CQO" PROVE Decode(Encode(i)) = Result(op, 64, None, None)
    <2> DEFINE o == 153
               b == 72
               t == <<>>
    <2>1. o \in Byte /\ o # 15 /\ b \in 64..79 /\ b \in Byte /\ WidthOf(b - 64) = 64
      BY DEF Byte, WidthOf
    <2>2. IsCode(t, 0) /\ 0 \in Nat
      BY NoCode
    <2>3. Encode(i) = <<b, o>> \o t
      <3>1. Encode(i) = <<b, o>>
        BY <1>2, <1>5 DEF Fixed
      <3>2. IsCode(<<b, o>>, 2) /\ 2 \in Nat
        BY <2>1, TwoCode
      <3>3. <<b, o>> \o t = <<b, o>>
        BY <3>2, NoneJoined
      <3>4. QED
        BY <3>1, <3>3
    <2> HIDE DEF o, b, t, i
    <2>4. Opens(<<b, o>> \o t, 1, b - 64, o, 3, t, 0)
      BY <2>1, <2>2, OpensPrefixed
    <2>5. ShowsBare(Encode(i), 1, b - 64, o, t, 0)
      BY <2>3, <2>4, ShownBare
    <2>6. Decode(Encode(i)) = Result("CQO", WidthOf(b - 64), None, None)
      BY <2>5, Read153 DEF o
    <2>7. QED
      BY <1>5, <2>1, <2>6
  <1>6. ASSUME op = "SYSCALL" PROVE Decode(Encode(i)) = Result(op, 64, None, None)
    <2> DEFINE o == 5
               t == <<>>
    <2>1. o \in Byte /\ 15 \in Byte
      BY DEF Byte
    <2>2. IsCode(t, 0) /\ 0 \in Nat
      BY NoCode
    <2>3. Encode(i) = <<15, o>> \o t
      <3>1. Encode(i) = <<15, o>>
        BY <1>2, <1>6 DEF Fixed
      <3>2. IsCode(<<15, o>>, 2) /\ 2 \in Nat
        BY <2>1, TwoCode
      <3>3. <<15, o>> \o t = <<15, o>>
        BY <3>2, NoneJoined
      <3>4. QED
        BY <3>1, <3>3
    <2>4. 256 + o = 261
      OBVIOUS
    <2> HIDE DEF o, t, i
    <2>5. Opens(<<15, o>> \o t, 0, 0, 256 + o, 3, t, 0)
      BY <2>1, <2>2, OpensBareTwo
    <2>6. ShowsBare(Encode(i), 0, 0, 261, t, 0)
      BY <2>3, <2>4, <2>5, ShownBare
    <2>7. QED
      BY <1>6, <2>6, Read261
  <1>7. Decode(Encode(i)) = Result(op, 64, None, None)
    BY <1>3, <1>4, <1>5, <1>6 DEF FixedOps
  <1>8. Means(i) = Result(op, 64, None, None)
    <2>1. Place(s, 64) = None
      BY Places
    <2>2. Means(i) = Result(op, 64, Place(s, 64), Place(s, 64))
      BY <1>1, MeansWide
    <2>3. QED
      BY <2>1, <2>2
  <1>9. Kept(Ins(op, s, s))
    BY <1>1, <1>7, <1>8, AlwaysKept
  <1>10. QED
    BY <1>9

----------------------------------------------------------------------------
(* Two-operand arithmetic.                                                 *)

LEMMA AluDigit ==
  ASSUME NEW op \in AluOps
  PROVE  /\ Digit[op] \in 0..7 /\ Digit[op] \in 0..15 /\ Lo(Digit[op]) = Digit[op]
         /\ AluNames[Digit[op] + 1] = op
         /\ \A k \in {0, 1, 4, 5} :
              /\ 8 * Digit[op] + k \in Byte /\ 8 * Digit[op] + k # 15
              /\ 8 * Digit[op] + k \notin 64..79
         /\ op \in ByteOps /\ op # "PUSH"
  BY DEF AluOps, Digit, AluNames, Byte, Lo, ByteOps

LEMMA AluGprGprKept ==
  ASSUME NEW op \in AluOps, NEW d \in G, NEW s \in G
  PROVE  Kept(Ins(op, d, s))
  <1> DEFINE i == Ins(op, d, s)
             g == Digit[op]
             o == 8 * g + 1
             y == ModRM(3, s.r, d.r)
             p == op # "XOR" \/ d.r # s.r \/ d.r >= 8
  <1>1. d.k = "gpr" /\ s.k = "gpr" /\ d.r \in 0..15 /\ s.r \in 0..15
    BY OperandTypes
  <1>2. /\ g \in 0..7 /\ AluNames[g + 1] = op /\ o \in Byte /\ o # 15 /\ o \notin 64..79
        /\ op \in ByteOps
    BY AluDigit
  <1>3. y \in Byte /\ IsCode(<<y>>, 1) /\ RexW(s.r, d.r) \in Byte /\ 1 \in Nat
    <2>1. 3 \in 0..3
      OBVIOUS
    <2>2. QED
      BY <1>1, <2>1, ModRMType, RegByteCode, RexRegsType
  <1>4. Encode(i) = Prefix(p, RexW(s.r, d.r)) \o <<o, y>>
    <2>1. Encode(i) = Alu(op, d, s)
      BY AluRule
    <2>2. Alu(op, d, s) = AluGpr(op, d, s)
      BY <1>1 DEF Alu
    <2>3. o = 1 + 8 * Digit[op]
      BY <1>2
    <2> HIDE DEF o, y
    <2>4. AluGpr(op, d, s) = Prefix(p, RexW(s.r, d.r)) \o <<o, y>>
      BY <1>1, <2>3 DEF AluGpr, y
    <2>5. QED
      BY <2>1, <2>2, <2>4
  <1>5. Decode(Encode(i)) = Result(op, 64, Reg(d.r), Reg(s.r))
    <2>1. CASE p
      <3> HIDE DEF o, g, y
      <3>1. Encode(i) = <<RexW(s.r, d.r), o>> \o <<y>>
        <4>1. Prefix(p, RexW(s.r, d.r)) = <<RexW(s.r, d.r)>>
          BY <2>1 DEF Prefix
        <4>2. Encode(i) = <<RexW(s.r, d.r)>> \o <<o, y>>
          BY <1>4, <4>1
        <4> HIDE DEF i, p
        <4>3. <<RexW(s.r, d.r)>> \o <<o, y>> = <<RexW(s.r, d.r), o, y>>
          BY <1>2, <1>3, OneTwoJoined
        <4>4. <<RexW(s.r, d.r), o>> \o <<y>> = <<RexW(s.r, d.r), o, y>>
          BY <1>2, <1>3, ThreeJoined
        <4>5. QED
          BY <4>2, <4>3, <4>4
      <3>2. ShowsWide(Encode(i), o, s.r, Reg(d.r))
        <4>1. ShowsWide(<<RexW(s.r, d.r), o>> \o <<ModRM(3, s.r, d.r)>>, o, s.r, Reg(d.r))
          BY <1>1, <1>2, WideRegCode
        <4>2. QED
          BY <3>1, <4>1 DEF y
      <3> HIDE DEF p, i
      <3>3. PICK rex : Shows(Encode(i), 1, rex, o, s.r, Reg(d.r)) /\ WidthOf(rex) = 64
        BY <3>2 DEF ShowsWide
      <3>4. Decode(Encode(i)) =
              Result(AluNames[g + 1],
                     IF AluNames[g + 1] = "XOR" /\ Reg(d.r) = Reg(s.r) /\ WidthOf(rex) = 32
                     THEN 64 ELSE WidthOf(rex),
                     Reg(d.r), Reg(s.r))
        <4>1. o = 8 * g + 1
          BY DEF o
        <4>2. Shows(Encode(i), 1, rex, o, s.r, Reg(d.r))
          BY <3>3
        <4>3. QED
          BY <1>1, <1>2, <4>1, <4>2, ReadAlu1
      <3>5. QED
        BY <1>2, <3>3, <3>4
    <2>2. CASE ~p
      <3>1. op = "XOR" /\ d.r = s.r /\ d.r < 8
        BY <1>1, <2>2
      <3> HIDE DEF o, g
      <3>2. Encode(i) = <<o>> \o <<y>>
        <4> HIDE DEF y
        <4>1. Prefix(p, RexW(s.r, d.r)) = <<>> /\ <<o>> \o <<y>> = <<o, y>>
          BY <1>2, <1>3, <2>2, TwoJoined DEF Prefix
        <4>2. <<>> \o <<o, y>> = <<o, y>>
          <5>1. IsCode(<<o, y>>, 2) /\ 2 \in Nat
            BY <1>2, <1>3, TwoCode
          <5>2. QED
            BY <5>1, NoneJoined
        <4>3. QED
          BY <1>4, <4>1, <4>2
      <3>3. Opens(<<o>> \o <<y>>, 0, 0, o, 2, <<y>>, 1)
        <4> DEFINE t == <<y>>
        <4>1. IsCode(t, 1) /\ 1 \in Nat
          BY <1>3
        <4> HIDE DEF t
        <4>2. Opens(<<o>> \o t, 0, 0, o, 2, t, 1)
          BY <1>2, <4>1, OpensBare
        <4>3. QED
          BY <4>2 DEF t
      <3>4. Fields(0, s.r, d.r)
        BY <1>1, <3>1 DEF Fields, Hi
      <3>5. Shows(Encode(i), 0, 0, o, s.r, Reg(d.r))
        <4>1. Opens(Encode(i), 0, 0, o, 2, <<ModRM(3, s.r, d.r)>>, 1)
          BY <3>2, <3>3
        <4>2. QED
          BY <1>1, <3>4, <4>1, ShownReg
      <3>6. Decode(Encode(i)) =
              Result(AluNames[g + 1],
                     IF AluNames[g + 1] = "XOR" /\ Reg(d.r) = Reg(s.r) /\ WidthOf(0) = 32
                     THEN 64 ELSE WidthOf(0),
                     Reg(d.r), Reg(s.r))
        <4>1. o = 8 * g + 1
          BY DEF o
        <4> HIDE DEF i
        <4>2. QED
          BY <1>1, <1>2, <3>5, <4>1, ReadAlu1
      <3>7. WidthOf(0) = 32
        BY DEF WidthOf
      <3>8. QED
        BY <1>2, <3>1, <3>6, <3>7
    <2>3. QED
      BY <2>1, <2>2
  <1>6. Means(i) = Result(op, 64, Reg(d.r), Reg(s.r))
    <2>1. Place(d, 64) = Reg(d.r) /\ Place(s, 64) = Reg(s.r)
      BY Places
    <2>2. Means(i) = Result(op, 64, Place(d, 64), Place(s, 64))
      BY <1>1, MeansWide
    <2>3. QED
      BY <2>1, <2>2
  <1>7. ~Misencoded(i)
    BY <1>1, AluDigit, MisencodedRule DEF AdrAdds, Adr64Adds
  <1>8. QED
    BY <1>5, <1>6, <1>7 DEF Kept

LEMMA AluGprImmKept ==
  ASSUME NEW op \in AluOps, NEW d \in G, NEW s \in I, Below31(s.v)
  PROVE  Kept(Ins(op, d, s))
  <1> DEFINE i == Ins(op, d, s)
             g == Digit[op]
             h == Rex(1, 0, 0, Hi(d.r))
             y == ModRM(3, g, d.r)
             four == Low(s.v, 4)
  <1>1. d.k = "gpr" /\ s.k = "imm" /\ d.r \in 0..15 /\ s.v \in Word8
    BY OperandTypes
  <1>2. g \in 0..7 /\ g \in 0..15 /\ Lo(g) = g /\ AluNames[g + 1] = op
    BY AluDigit
  <1>3. Encode(i) = AluGpr(op, d, s)
    <2>1. Encode(i) = Alu(op, d, s)
      BY AluRule
    <2>2. Alu(op, d, s) = AluGpr(op, d, s)
      BY <1>1 DEF Alu
    <2>3. QED
      BY <2>1, <2>2
  <1>4. IsCode(four, 4) /\ 4 \in Nat /\ SignExt(four) = s.v
    <2>1. 4 \in 1..8 /\ 4 \in 0..8 /\ Below(s.v, 4, 128)
      BY DEF Below31
    <2>2. QED
      BY <1>1, <2>1, LowCode, BelowFits
  <1>5. Decode(Encode(i)) = Result(op, 64, Reg(d.r), Imm(s.v))
    <2>1. CASE Below7(s.v)
      <3> DEFINE o == 131
                 b == s.v[1]
                 t == <<b>>
      <3>1. Low(s.v, 1) = t /\ b \in Byte /\ IsCode(t, 1) /\ 1 \in Nat
        BY <1>1, LowOne, OneCode
      <3>2. SignExt(t) = s.v
        <4>1. 1 \in 1..8 /\ Below(s.v, 1, 128)
          BY <2>1 DEF Below7
        <4>2. SignExt(Low(s.v, 1)) = s.v
          BY <1>1, <4>1, BelowFits
        <4>3. QED
          BY <3>1, <4>2
      <3>3. o \in Byte /\ o # 15
        BY DEF Byte
      <3>4. Encode(i) = <<h, o, y>> \o t
        <4>1. Encode(i) = <<h, o, y, b>>
          BY <1>1, <1>3, <2>1 DEF AluGpr
        <4>2. h \in Byte /\ y \in Byte
          <5>1. Hi(d.r) \in 0..1 /\ 1 \in 0..1 /\ 0 \in 0..1 /\ 3 \in 0..3
            BY <1>1, HalvesType
          <5> HIDE DEF g
          <5>2. QED
            BY <1>1, <1>2, <5>1, RexType, ModRMType
        <4> HIDE DEF h, o, y, b
        <4>3. <<h, o, y>> \o <<b>> = <<h, o, y, b>>
          BY <3>1, <3>3, <4>2, FourJoined
        <4>4. QED
          BY <4>1, <4>3
      <3> HIDE DEF g, o, t, i
      <3>5. ShowsWideImm(Encode(i), o, g, Reg(d.r), t, 1)
        <4>1. ShowsWideImm(<<h, o, y>> \o t, o, g, Reg(d.r), t, 1)
          BY <1>1, <1>2, <3>1, <3>3, DigitImmCode
        <4>2. QED
          BY <3>4, <4>1
      <3>6. Decode(Encode(i)) = Result(AluNames[Lo(g) + 1], 64, Reg(d.r), Imm(SignExt(t)))
        BY <1>2, <3>5, Read131 DEF ShowsWideImm, o
      <3>7. QED
        BY <1>2, <3>2, <3>6
    <2>2. CASE ~Below7(s.v) /\ d.r = 0
      <3> DEFINE o == 8 * g + 5
                 b == Rex(1, 0, 0, 0)
      <3>1. o \in Byte /\ o # 15 /\ o = 5 + 8 * Digit[op]
        BY <1>2, AluDigit
      <3>2. b \in 64..79 /\ WidthOf(b - 64) = 64
        BY DEF Rex, WidthOf
      <3>3. Encode(i) = <<b, o>> \o four
        <4> HIDE DEF o, b
        <4>1. QED
          BY <1>1, <1>3, <2>2, <3>1 DEF AluGpr, b
      <3> HIDE DEF g, o, b, i, four
      <3>4. Opens(<<b, o>> \o four, 1, b - 64, o, 3, four, 4)
        BY <1>4, <3>1, <3>2, OpensPrefixed
      <3>5. ShowsBare(Encode(i), 1, b - 64, o, four, 4)
        BY <3>3, <3>4, ShownBare
      <3>6. Decode(Encode(i)) = Result(AluNames[g + 1], WidthOf(b - 64), Reg(0),
                                       Imm(SignExt(four)))
        <4>1. o = 8 * g + 5
          BY DEF o
        <4>2. QED
          BY <1>2, <3>2, <3>5, <4>1, ReadAlu5
      <3>7. QED
        BY <1>2, <1>4, <2>2, <3>2, <3>6
    <2>3. CASE ~Below7(s.v) /\ d.r # 0
      <3> DEFINE o == 129
      <3>1. o \in Byte /\ o # 15
        BY DEF Byte
      <3>2. Encode(i) = <<h, o, y>> \o four
        BY <1>1, <1>3, <2>3 DEF AluGpr
      <3> HIDE DEF g, o, i, four
      <3>3. ShowsWideImm(Encode(i), o, g, Reg(d.r), four, 4)
        <4>1. ShowsWideImm(<<h, o, y>> \o four, o, g, Reg(d.r), four, 4)
          BY <1>1, <1>2, <1>4, <3>1, DigitImmCode
        <4>2. QED
          BY <3>2, <4>1
      <3>4. Decode(Encode(i)) = Result(AluNames[Lo(g) + 1], 64, Reg(d.r), Imm(SignExt(four)))
        BY <1>2, <3>3, Read129 DEF ShowsWideImm, o
      <3>5. QED
        BY <1>2, <1>4, <3>4
    <2>4. QED
      BY <2>1, <2>2, <2>3
  <1>6. Means(i) = Result(op, 64, Reg(d.r), Imm(s.v))
    <2>1. 64 # 8
      OBVIOUS
    <2>2. Place(d, 64) = Reg(d.r) /\ Place(s, 64) = Imm(s.v)
      BY <2>1, Places
    <2>3. Means(i) = Result(op, 64, Place(d, 64), Place(s, 64))
      BY <1>1, MeansWide
    <2>4. QED
      BY <2>2, <2>3
  <1>7. ~Misencoded(i)
    BY <1>1, AluDigit, MisencodedRule DEF AdrAdds, Adr64Adds
  <1>8. QED
    BY <1>5, <1>6, <1>7 DEF Kept

LEMMA AluGprbGprbKept ==
  ASSUME NEW op \in AluOps, NEW d \in B, NEW s \in B
  PROVE  Kept(Ins(op, d, s))
  <1> DEFINE i == Ins(op, d, s)
             g == Digit[op]
             o == 8 * g + 0
             y == ModRM(3, s.r, d.r)
             p == d.r >= 4 \/ s.r >= 4
             b == RexB(s.r, d.r)
  <1>1. d.k = "gprb" /\ s.k = "gprb" /\ d.r \in 0..15 /\ s.r \in 0..15
    BY OperandTypes
  <1>2. /\ g \in 0..7 /\ AluNames[g + 1] = op /\ o \in Byte /\ o # 15 /\ o \notin 64..79
        /\ op \in ByteOps /\ o = 8 * Digit[op]
    BY AluDigit
  <1>3. y \in Byte /\ IsCode(<<y>>, 1) /\ b \in Byte
    <2>1. 3 \in 0..3
      OBVIOUS
    <2>2. QED
      BY <1>1, <2>1, ModRMType, RegByteCode, RexRegsType
  <1>p. /\ p \/ (s.r < 8 /\ d.r < 8)
        /\ p \/ s.r < 4 \/ s.r >= 8
        /\ p \/ d.r < 4 \/ d.r >= 8
    BY <1>1
  <1>4. Encode(i) = Prefix(p, b) \o <<o>> \o <<y>>
    <2>1. Encode(i) = Alu(op, d, s)
      BY AluRule
    <2>2. Alu(op, d, s) = AluGprb(op, d, s)
      BY <1>1 DEF Alu
    <2>3. AluGprb(op, d, s) = Prefix(p, b) \o <<o, y>>
      <3> HIDE DEF o
      <3>1. QED
        BY <1>1, <1>2 DEF AluGprb
    <2> HIDE DEF o, p, y, b, i
    <2>4. <<o, y>> = <<o>> \o <<y>>
      BY <1>2, <1>3, TwoJoined
    <2>5. Prefix(p, b) \o (<<o>> \o <<y>>) = (Prefix(p, b) \o <<o>>) \o <<y>>
      <3>1. Prefix(p, b) \in Seq(Byte) /\ <<o>> \in Seq(Byte) /\ <<y>> \in Seq(Byte)
        BY <1>2, <1>3, PrefixCode, OneCode DEF IsCode
      <3>2. QED
        BY <3>1, ConcatAssociative
    <2>6. QED
      BY <2>1, <2>2, <2>3, <2>4, <2>5
  <1> HIDE DEF p, o, g
  <1>5. ShowsByte(Encode(i), p, o, s.r, Reg(d.r))
    <2>1. ShowsByte(Prefix(p, RexB(s.r, d.r)) \o <<o>> \o <<ModRM(3, s.r, d.r)>>, p, o, s.r,
                    Reg(d.r))
      BY <1>1, <1>2, <1>p, ByteRegCode
    <2>2. QED
      BY <1>4, <2>1
  <1> HIDE DEF i
  <1>6. Decode(Encode(i)) = Result(op, 8, ByteReg(Reg(d.r), Bit(p)), ByteReg(Reg(s.r), Bit(p)))
    <2>1. PICK rex : Shows(Encode(i), Bit(p), rex, o, s.r, Reg(d.r))
      BY <1>5 DEF ShowsByte
    <2>2. o = 8 * g + 0
      BY DEF o
    <2>3. Decode(Encode(i)) =
            Result(AluNames[g + 1], 8, ByteReg(Reg(d.r), Bit(p)), ByteReg(Reg(s.r), Bit(p)))
      BY <1>1, <1>2, <2>1, <2>2, ReadAlu0
    <2>4. QED
      BY <1>2, <2>3
  <1>7. Decode(Encode(i)) = Result(op, 8, Reg(d.r), Reg(s.r))
    BY <1>1, <1>6, <1>p, ByteRegRight
  <1>8. Means(i) = Result(op, 8, Reg(d.r), Reg(s.r))
    <2>1. Place(d, 8) = Reg(d.r) /\ Place(s, 8) = Reg(s.r)
      BY Places
    <2>2. Means(i) = Result(op, 8, Place(d, 8), Place(s, 8))
      BY <1>1, <1>2, MeansByte DEF i
    <2>3. QED
      BY <2>1, <2>2
  <1>9. ~Misencoded(i)
    BY <1>1, AluDigit, MisencodedRule DEF AdrAdds, Adr64Adds, i
  <1>10. QED
    BY <1>7, <1>8, <1>9 DEF Kept, i

(* The operand byte of a register other than AL is another register's or   *)
(* memory's once the opcode of AL, IMM is added into it.                   *)
LEMMA AluByteSum ==
  ASSUME NEW g \in {0, 1, 4, 5, 6, 7}, NEW l \in 0..7
  PROVE  LET x == (4 + 8 * g + 192 + l) % 256
         IN  x \in Byte /\ x % 8 # l
  BY DEF Byte

LEMMA OperandOther ==
  ASSUME NEW c, NEW n, NEW rex \in Nat, c[n] \in Byte, NEW r \in 0..15, c[n] % 8 # Lo(r), NEW p
  PROVE  ByteReg(Operand(c, n, rex).rm, p) # Reg(r)
  <1> DEFINE e == Operand(c, n, rex)
             m == c[n] % 8
             h == rex % 2
  <1>1. m \in 0..7 /\ m # r % 8
    BY DEF Byte, Lo
  <1>2. CASE c[n] \div 64 = 3
    <2>1. e.rm = Reg(8 * h + m)
      BY <1>2 DEF Operand
    <2> HIDE DEF e, m, h
    <2>2. ByteReg(e.rm, p) \in {[k |-> "high", r |-> 8 * h + m], Reg(8 * h + m)}
      BY <2>1 DEF ByteReg, Reg
    <2>3. [k |-> "high", r |-> 8 * h + m] # Reg(r)
      BY DEF Reg
    <2>4. Reg(8 * h + m) # Reg(r)
      <3>1. h \in 0..1
        BY DEF h
      <3>2. 8 * h + m # r
        BY <1>1, <3>1
      <3>3. QED
        BY <3>2 DEF Reg
    <2>5. QED
      BY <2>2, <2>3, <2>4 DEF e
  <1>3. CASE c[n] \div 64 # 3
    <2>1. e.rm.k = "mem"
      BY <1>3 DEF Operand, Mem
    <2> HIDE DEF e
    <2>2. ByteReg(e.rm, p) = e.rm
      BY <2>1 DEF ByteReg
    <2>3. e.rm # Reg(r)
      BY <2>1 DEF Reg
    <2>4. QED
      BY <2>2, <2>3 DEF e
  <1>4. QED
    BY <1>2, <1>3

(* Read with such an operand byte, the instruction is another one. *)
LEMMA ReadOther ==
  ASSUME NEW e, NEW p, NEW rex \in Nat, NEW n, NEW t, NEW k, Opens(e, p, rex, 128, n, t, k),
         NEW r \in 0..15, k >= 1, k \in Nat, n \in Nat, t[1] \in Byte, t[1] % 8 # Lo(r), Len(t) = k,
         NEW op, NEW w, NEW s
  PROVE  Decode(e) # Result(op, w, Reg(r), s)
  <1>1. PICK c : InCode(c, n, t, k) /\ Decode(e) = Reading(LeadOf(p, rex, 128, n), c, n + k - 1)
    BY DEF Opens
  <1>2. c[n] = t[1]
    <2>1. At(c, n, t)
      BY <1>1 DEF InCode
    <2>2. 1 \in 1..Len(t) /\ n + 1 - 1 = n
      OBVIOUS
    <2>3. c[n + 1 - 1] = t[1]
      BY <2>1, <2>2 DEF At
    <2>4. QED
      BY <2>2, <2>3
  <1> DEFINE x == Operand(c, n, rex)
             len == n + k - 1
  <1>3. ByteReg(x.rm, p) # Reg(r)
    <2>1. c[n] \in Byte /\ c[n] % 8 # Lo(r)
      BY <1>2
    <2>2. QED
      BY <2>1, OperandOther
  <1> HIDE DEF len
  <1>4. Reading(LeadOf(p, rex, 128, n), c, len) =
          Took(AluNames[x.digit + 1], 8, ByteReg(x.rm, p), Imm(ZeroExt(Cut(c, x.next, 1))),
               x.next + 1, len)
    BY DEF Reading, LeadOf
  <1> DEFINE a == AluNames[x.digit + 1]
             u == ByteReg(x.rm, p)
             v == Imm(ZeroExt(Cut(c, x.next, 1)))
             m == x.next + 1
  <1>5. Decode(e) = Took(a, 8, u, v, m, len) /\ u # Reg(r)
    BY <1>1, <1>3, <1>4 DEF len
  <1> HIDE DEF x, a, u, v, m
  <1>6. Took(a, 8, u, v, m, len) # Result(op, w, Reg(r), s)
    <2>1. None # Result(op, w, Reg(r), s)
      <3>1. DOMAIN None = {"k"}
        BY DEF None
      <3>2. "op" \in DOMAIN Result(op, w, Reg(r), s)
        BY DEF Result
      <3>3. "op" \notin {"k"}
        OBVIOUS
      <3>4. QED
        BY <3>1, <3>2, <3>3
    <2>2. \A y : [op |-> a, w |-> y, d |-> u, s |-> v] # Result(op, w, Reg(r), s)
      BY <1>5 DEF Result
    <2>3. QED
      BY <2>1, <2>2 DEF Took
  <1>7. QED
    BY <1>5, <1>6

LEMMA AluGprbImmKept ==
  ASSUME NEW op \in AluOps, NEW d \in B, NEW s \in I
  PROVE  Kept(Ins(op, d, s))
  <1> DEFINE i == Ins(op, d, s)
             g == Digit[op]
             b == s.v[1]
             u == Imm(ZeroExt(Low(s.v, 1)))
  <1>1. d.k = "gprb" /\ s.k = "imm" /\ d.r \in 0..15 /\ s.v \in Word8
    BY OperandTypes
  <1>2. g \in 0..7 /\ AluNames[g + 1] = op /\ op \in ByteOps
    BY AluDigit
  <1>3. Low(s.v, 1) = <<b>> /\ b \in Byte /\ IsCode(<<b>>, 1) /\ 1 \in Nat
    BY <1>1, LowOne, OneCode
  <1>4. Encode(i) = AluGprb(op, d, s)
    <2>1. Encode(i) = Alu(op, d, s)
      BY AluRule
    <2>2. Alu(op, d, s) = AluGprb(op, d, s)
      BY <1>1 DEF Alu
    <2>3. QED
      BY <2>1, <2>2
  <1>5. Means(i) = Result(op, 8, Reg(d.r), u)
    <2>1. Place(d, 8) = Reg(d.r) /\ Place(s, 8) = u
      BY Places
    <2>2. Means(i) = Result(op, 8, Place(d, 8), Place(s, 8))
      BY <1>1, <1>2, MeansByte
    <2>3. QED
      BY <2>1, <2>2
  <1>6. Misencoded(i) <=> d.r # 0
    BY <1>1, AluDigit, MisencodedRule DEF AdrAdds, Adr64Adds
  <1>7. ASSUME d.r = 0 PROVE Decode(Encode(i)) = Means(i)
    <2> DEFINE o == 8 * g + 4
               t == <<b>>
    <2>1. o \in Byte /\ o # 15 /\ o \notin 64..79 /\ o = 4 + 8 * Digit[op]
      BY <1>2, AluDigit
    <2>2. Encode(i) = <<o>> \o t
      <3>1. Encode(i) = <<o, b>>
        <4> HIDE DEF o
        <4>1. QED
          BY <1>1, <1>4, <1>7, <2>1 DEF AluGprb
      <3> HIDE DEF o
      <3>2. QED
        BY <1>3, <2>1, <3>1, TwoJoined
    <2>3. o = 8 * g + 4 /\ IsCode(t, 1)
      BY <1>3
    <2> HIDE DEF o, t, i, g
    <2>4. Opens(<<o>> \o t, 0, 0, o, 2, t, 1)
      BY <1>3, <2>1, <2>3, OpensBare
    <2>5. ShowsBare(Encode(i), 0, 0, o, t, 1)
      BY <2>2, <2>4, ShownBare
    <2>6. Decode(Encode(i)) = Result(AluNames[g + 1], 8, Reg(0), Imm(ZeroExt(t)))
      BY <1>2, <2>3, <2>5, ReadAlu4
    <2>7. Decode(Encode(i)) = Result(op, 8, Reg(d.r), u)
      BY <1>2, <1>3, <1>7, <2>6 DEF t
    <2>8. QED
      BY <1>5, <2>7
  <1>8. ASSUME d.r # 0 PROVE Decode(Encode(i)) # Means(i)
    <2> DEFINE o == 128
               p == d.r >= 4
               h == 64 + Hi(d.r)
               x == (4 + 8 * g + 192 + Lo(d.r)) % 256
               t == <<x, b>>
               rex == IF p THEN h - 64 ELSE 0
    <2>1. x \in Byte /\ x % 8 # Lo(d.r)
      <3>1. g \in {0, 1, 4, 5, 6, 7}
        BY DEF AluOps, Digit
      <3>2. Lo(d.r) \in 0..7
        BY <1>1, HalvesType
      <3>3. QED
        BY <3>1, <3>2, AluByteSum
    <2>2. o \in Byte /\ o # 15 /\ o \notin 64..79
      BY DEF Byte
    <2>3. h \in 64..79 /\ h \in Byte /\ rex \in Nat
      BY <1>1, HalvesType DEF Byte
    <2>4. IsCode(t, 2) /\ Len(t) = 2 /\ 2 \in Nat /\ t[1] = x
      <3> HIDE DEF x
      <3>1. IsCode(t, 2)
        BY <1>3, <2>1, TwoCode
      <3>2. QED
        BY <3>1 DEF IsCode
    <2>5. Encode(i) = Prefix(p, h) \o <<o>> \o t
      <3>1. Encode(i) = Prefix(p, h) \o <<o, x, b>>
        BY <1>1, <1>4, <1>8 DEF AluGprb
      <3> HIDE DEF o, p, h, x, i, b
      <3>2. <<o>> \o <<x, b>> = <<o, x, b>>
        BY <1>3, <2>1, <2>2, OneTwoJoined
      <3>3. Prefix(p, h) \o (<<o>> \o t) = (Prefix(p, h) \o <<o>>) \o t
        <4>1. Prefix(p, h) \in Seq(Byte) /\ <<o>> \in Seq(Byte) /\ t \in Seq(Byte)
          BY <2>2, <2>3, <2>4, PrefixCode, OneCode DEF IsCode
        <4> HIDE DEF t
        <4>2. QED
          BY <4>1, ConcatAssociative
      <3>4. QED
        BY <3>1, <3>2, <3>3
    <2> HIDE DEF o, p, h, x, t, rex, i, b, u
    <2>6. Opens(Prefix(p, h) \o <<o>> \o t, Bit(p), rex, o, 2 + Bit(p), t, 2)
      BY <2>2, <2>3, <2>4, OpensEither DEF rex
    <2>7. Opens(Encode(i), Bit(p), rex, 128, 2 + Bit(p), t, 2)
      BY <2>5, <2>6 DEF o
    <2>8. 2 + Bit(p) \in Nat
      BY BitType
    <2>9. Decode(Encode(i)) # Result(op, 8, Reg(d.r), u)
      <3>1. t[1] \in Byte /\ t[1] % 8 # Lo(d.r) /\ 2 >= 1
        BY <2>1, <2>4
      <3>2. QED
        BY <1>1, <2>3, <2>4, <2>7, <2>8, <3>1, ReadOther
    <2>10. QED
      BY <1>5, <2>9
  <1>9. QED
    BY <1>6, <1>7, <1>8 DEF Kept

(* To memory: the register is read without its highest bit. *)
LEMMA AluMemKept ==
  ASSUME NEW op \in AluOps, NEW d \in O(AdrAdds), NEW s \in G, Below31(d.v)
  PROVE  Kept(Ins(op, d, s))
  <1> DEFINE i == Ins(op, d, s)
             g == Digit[op]
             o == 8 * g + 1
             l == Lo(s.r)
             m == Mem(d.r, NoIndex, 1, Disp(d))
  <1>1. /\ d.k \in AdrAdds /\ d.k \notin {"gpr", "gprb", "imm"} /\ s.k = "gpr"
        /\ d.r \in 0..15 /\ s.r \in 0..15 /\ d.v \in Word8
    BY OperandTypes, OffsetTypes DEF AdrAdds
  <1>2. /\ g \in 0..7 /\ AluNames[g + 1] = op /\ o \in Byte /\ o # 15 /\ o = 1 + 8 * Digit[op]
    BY AluDigit
  <1>3. l \in 0..7 /\ l \in 0..15 /\ Lo(l) = l
    BY <1>1 DEF Lo
  <1>4. Encode(i) = <<RexW(l, d.r), o>> \o Store(l, d)
    <2>1. Encode(i) = Alu(op, d, s)
      BY AluRule
    <2>2. Alu(op, d, s) = AluAdrAdd(op, d, s)
      BY <1>1 DEF Alu
    <2> HIDE DEF o
    <2>3. AluAdrAdd(op, d, s) = <<Rex(1, 0, 0, Hi(d.r)), o>> \o Store(s.r, d)
      BY <1>2 DEF AluAdrAdd
    <2>4. Rex(1, 0, 0, Hi(d.r)) = RexW(l, d.r)
      BY <1>1, <1>3, RexRegs
    <2>5. Store(s.r, d) = Store(l, d)
      <3>1. Lo(s.r) = Lo(l)
        BY <1>3
      <3> HIDE DEF l
      <3>2. QED
        BY <3>1 DEF Store, ModRM
    <2>6. QED
      BY <2>1, <2>2, <2>3, <2>4, <2>5
  <1> HIDE DEF o, l, m, g
  <1>5. ShowsWide(Encode(i), o, l, m)
    <2>1. ShowsWide(<<RexW(l, d.r), o>> \o Store(l, d), o, l, Mem(d.r, NoIndex, 1, Disp(d)))
      BY <1>1, <1>2, <1>3, WideStoreCode
    <2>2. QED
      BY <1>4, <2>1 DEF m
  <1>6. Decode(Encode(i)) = Result(op, 64, m, Reg(l))
    <2> HIDE DEF i
    <2>1. PICK rex : Shows(Encode(i), 1, rex, o, l, m) /\ WidthOf(rex) = 64
      BY <1>5 DEF ShowsWide
    <2>2. Shows(Encode(i), 1, rex, o, l, m) /\ o = 8 * g + 1
      BY <2>1 DEF o
    <2>3. Decode(Encode(i)) =
            Result(AluNames[g + 1],
                   IF AluNames[g + 1] = "XOR" /\ m = Reg(l) /\ WidthOf(rex) = 32
                   THEN 64 ELSE WidthOf(rex),
                   m, Reg(l))
      BY <1>2, <1>3, <2>2, ReadAlu1
    <2>4. QED
      BY <1>2, <2>1, <2>3
  <1>7. Means(i) = Result(op, 64, m, Reg(s.r))
    <2>1. Place(d, 64) = m /\ Place(s, 64) = Reg(s.r)
      BY Places DEF m
    <2>2. Means(i) = Result(op, 64, Place(d, 64), Place(s, 64))
      BY <1>1, MeansWide
    <2>3. QED
      BY <2>1, <2>2
  <1>8. Misencoded(i) <=> s.r >= 8
    BY <1>1, AluDigit, MisencodedRule DEF AdrAdds, Adr64Adds
  <1>9. Decode(Encode(i)) = Means(i) <=> Reg(l) = Reg(s.r)
    BY <1>6, <1>7, SameResult
  <1>10. Reg(l) = Reg(s.r) <=> ~(s.r >= 8)
    <2>1. l = s.r <=> ~(s.r >= 8)
      BY <1>1 DEF l, Lo
    <2>2. QED
      BY <2>1 DEF Reg
  <1>11. QED
    BY <1>8, <1>9, <1>10 DEF Kept

----------------------------------------------------------------------------
(* Every instruction, in every of its forms.                               *)

LEMMA RefusesRule ==
  ASSUME NEW op, NEW d, NEW s, ~Refuses(Ins(op, d, s))
  PROVE  /\ op = "MOV" /\ d.k \in AdrAdds \cup Adr64Adds => Below31(d.v)
         /\ op \in AluOps /\ d.k \in AdrAdds => Below31(d.v)
         /\ op \in AluOps /\ d.k = "gpr" /\ s.k = "imm" => Below31(s.v)
         /\ op \in ShiftOps /\ s.k = "imm" => Below(s.v, 1, 64)
         /\ s.k = "idx" => s.x # 4
  BY Tables DEF Refuses, Ins

LEMMA MovGprKept ==
  ASSUME junk \in Byte, NEW d \in G,
         NEW s \in G \cup A \cup O(AdrAdds) \cup X \cup I \cup {Static(v) : v \in Values},
         ~Refuses(Ins("MOV", d, s))
  PROVE  Kept(Ins("MOV", d, s))
  <1>1. CASE s \in X
    <2>1. s.x # 4
      BY <1>1, RefusesRule, OperandTypes
    <2>2. QED
      BY <1>1, <2>1, MovGprIdxKept
  <1>2. CASE s \in {Static(v) : v \in Values}
    BY <1>2, MovGprStaticKept
  <1>3. CASE s \in G \cup A \cup O(AdrAdds) \cup I
    BY <1>3, MovGprGprKept, MovGprAdrKept, MovGprLoadKept, MovGprImmKept
  <1>4. QED
    BY <1>1, <1>2, <1>3

LEMMA MovOfstKept ==
  ASSUME NEW d \in O(AdrAdds \cup Adr64Adds), NEW s,
         s \in G \cup B \/ (s \in I /\ d \in O(Adr64Adds)),
         ~Refuses(Ins("MOV", d, s))
  PROVE  Kept(Ins("MOV", d, s))
  <1>1. Below31(d.v)
    <2>1. d.k \in AdrAdds \cup Adr64Adds
      BY OffsetTypes
    <2>2. QED
      BY <2>1, RefusesRule
  <1>2. QED
    BY <1>1, MovOfstGprKept, MovOfstGprbKept, MovOfstImmKept

LEMMA LeaKept ==
  ASSUME junk \in Byte, NEW d \in G, NEW s \in O(AdrAdds) \cup X, ~Refuses(Ins("LEA", d, s))
  PROVE  Kept(Ins("LEA", d, s))
  <1>1. CASE s \in X
    <2>1. s.x # 4
      BY <1>1, RefusesRule, OperandTypes
    <2>2. QED
      BY <1>1, <2>1, LeaIdxKept
  <1>2. CASE s \in O(AdrAdds)
    BY <1>2, LeaLoadKept
  <1>3. QED
    BY <1>1, <1>2

LEMMA AluKept ==
  ASSUME NEW op \in AluOps, NEW d, NEW s,
         \/ d \in G /\ s \in G \cup I
         \/ d \in B /\ s \in B \cup I
         \/ d \in O(AdrAdds) /\ s \in G,
         ~Refuses(Ins(op, d, s))
  PROVE  Kept(Ins(op, d, s))
  <1>1. CASE d \in G /\ s \in G
    BY <1>1, AluGprGprKept
  <1>2. CASE d \in G /\ s \in I
    <2>1. Below31(s.v)
      <3>1. d.k = "gpr" /\ s.k = "imm"
        BY <1>2, OperandTypes
      <3>2. QED
        BY <3>1, RefusesRule
    <2>2. QED
      BY <1>2, <2>1, AluGprImmKept
  <1>3. CASE d \in B /\ s \in B
    BY <1>3, AluGprbGprbKept
  <1>4. CASE d \in B /\ s \in I
    BY <1>4, AluGprbImmKept
  <1>5. CASE d \in O(AdrAdds) /\ s \in G
    <2>1. Below31(d.v)
      <3>1. d.k \in AdrAdds
        BY <1>5, OffsetTypes
      <3>2. QED
        BY <3>1, RefusesRule
    <2>2. QED
      BY <1>5, <2>1, AluMemKept
  <1>6. QED
    BY <1>1, <1>2, <1>3, <1>4, <1>5

LEMMA ShiftsKept ==
  ASSUME NEW op \in ShiftOps, NEW d \in G, NEW s \in {Gprb(1)} \cup I, ~Refuses(Ins(op, d, s))
  PROVE  Kept(Ins(op, d, s))
  <1>1. s.k = "imm" => Below(s.v, 1, 64)
    BY RefusesRule
  <1>2. QED
    BY <1>1, ShiftKept

(* Every instruction the writer accepts and does not stop at, in every of  *)
(* its forms, means what it is read back as, or is one of the exceptions.  *)
THEOREM InstructionsKept ==
  ASSUME junk \in Byte, NEW i \in Instructions, ~Refuses(i)
  PROVE  Kept(i)
  <1> DEFINE MovToReg == All("MOV", G, G \cup A \cup O(AdrAdds) \cup X \cup I
                                     \cup {Static(v) : v \in Values})
             MovToByte == All("MOV", B, A \cup O(AdrAdds) \cup I)
             MovToMem == All("MOV", A \cup O(AdrAdds), G \cup B)
             MovTo64 == All("MOV", O(Adr64Adds), G \cup B \cup I)
             Leas == All("LEA", G, O(AdrAdds) \cup X)
             Tests == All("TEST", G, G)
             ByteTests == All("TEST", B, B)
             Imuls == All("IMUL", G, G)
             Movzxs == All("MOVZX", G, B)
             Pushes == All("PUSH", G \cup I, {None})
             Pops == All("POP", G, {None})
             Alus(op) == All(op, G, G \cup I) \cup All(op, B, B \cup I)
                           \cup All(op, O(AdrAdds), G)
  <1>1. \/ i \in MovToReg \/ i \in MovToByte \/ i \in MovToMem \/ i \in MovTo64 \/ i \in Leas
        \/ i \in Tests \/ i \in ByteTests \/ i \in Imuls \/ i \in Movzxs \/ i \in Pushes
        \/ i \in Pops
        \/ \E op \in AluOps : i \in Alus(op)
        \/ \E op \in UnaryOps \cup MulOps : i \in All(op, G, {None})
        \/ \E op \in ShiftOps : i \in All(op, G, {Gprb(1)} \cup I)
        \/ \E op \in SetOps : i \in All(op, B, {None})
        \/ \E op \in FixedOps : i \in All(op, {None}, {None})
    <2>1. PICK M : /\ i \in M
                   /\ \/ M \in {MovToReg, MovToByte, MovToMem, MovTo64, Leas, Tests,
                               ByteTests, Imuls, Movzxs, Pushes, Pops}
                      \/ M \in {Alus(op) : op \in DOMAIN Digit}
                      \/ M \in {All(op, G, {None}) : op \in UnaryOps \cup MulOps}
                      \/ M \in {All(op, G, {Gprb(1)} \cup I) : op \in DOMAIN ShiftDigit}
                      \/ M \in {All(op, B, {None}) : op \in DOMAIN Condition}
                      \/ M \in {All(op, {None}, {None}) : op \in DOMAIN Fixed}
      BY Zenon DEF Instructions
    <2> HIDE DEF MovToReg, MovToByte, MovToMem, MovTo64, Leas, Tests, ByteTests,
                 Imuls, Movzxs, Pushes, Pops
    <2>2. QED
      BY <2>1, Tables, Zenon
  <1>2. CASE i \in MovToReg
    BY <1>2, AllIn, MovGprKept
  <1>3. CASE i \in MovToByte
    BY <1>3, AllIn, MovGprbAdrKept, MovGprbLoadKept, MovGprbImmKept
  <1>4. CASE i \in MovToMem
    <2>1. PICK d \in A \cup O(AdrAdds), s \in G \cup B : i = Ins("MOV", d, s)
      BY <1>4, AllIn
    <2>2. CASE d \in A
      BY <2>1, <2>2, MovAdrGprKept, MovAdrGprbKept
    <2>3. CASE d \in O(AdrAdds)
      <3>1. d \in O(AdrAdds \cup Adr64Adds)
        BY <2>3 DEF O
      <3>2. QED
        BY <2>1, <3>1, MovOfstKept
    <2>4. QED
      BY <2>2, <2>3
  <1>5. CASE i \in MovTo64
    <2>1. PICK d \in O(Adr64Adds), s \in G \cup B \cup I : i = Ins("MOV", d, s)
      BY <1>5, AllIn
    <2>2. d \in O(AdrAdds \cup Adr64Adds)
      BY <2>1 DEF O
    <2>3. QED
      BY <2>1, <2>2, MovOfstKept
  <1>6. CASE i \in Leas
    BY <1>6, AllIn, LeaKept
  <1>7. CASE i \in Tests \/ i \in ByteTests
    BY <1>7, AllIn, TestGprKept, TestGprbKept
  <1>8. CASE i \in Imuls \/ i \in Movzxs
    BY <1>8, AllIn, ImulKept, MovzxKept
  <1>9. CASE i \in Pushes \/ i \in Pops
    <2>1. \/ \E d \in G, s \in {None} : i = Ins("PUSH", d, s) \/ i = Ins("POP", d, s)
          \/ \E d \in I, s \in {None} : i = Ins("PUSH", d, s)
      BY <1>9, AllIn
    <2>2. QED
      BY <2>1, PushGprKept, PushImmKept
  <1>10. CASE \E op \in AluOps : i \in Alus(op)
    <2>1. PICK op \in AluOps : i \in Alus(op)
      BY <1>10
    <2>2. \/ \E d \in G, s \in G \cup I : i = Ins(op, d, s)
          \/ \E d \in B, s \in B \cup I : i = Ins(op, d, s)
          \/ \E d \in O(AdrAdds), s \in G : i = Ins(op, d, s)
      BY <2>1, AllIn
    <2>3. QED
      BY <2>2, AluKept
  <1>11. CASE \E op \in UnaryOps \cup MulOps : i \in All(op, G, {None})
    <2>1. PICK op \in UnaryOps \cup MulOps : i \in All(op, G, {None})
      BY <1>11
    <2>2. PICK d \in G, s \in {None} : i = Ins(op, d, s)
      BY <2>1, AllIn
    <2>3. QED
      BY <2>2, UnaryKept, MulDivKept
  <1>12. CASE \E op \in ShiftOps : i \in All(op, G, {Gprb(1)} \cup I)
    BY <1>12, AllIn, ShiftsKept
  <1>13. CASE \E op \in SetOps : i \in All(op, B, {None})
    BY <1>13, AllIn, SetCcKept
  <1>14. CASE \E op \in FixedOps : i \in All(op, {None}, {None})
    BY <1>14, AllIn, FixedKept
  <1>15. QED
    BY <1>1, <1>2, <1>3, <1>4, <1>5, <1>6, <1>7, <1>8, <1>9, <1>10, <1>11, <1>12, <1>13, <1>14

----------------------------------------------------------------------------
(* The writer.                                                             *)

(* What is in the buffer is the code of the instruction once it is         *)
(* written, and nothing before that or of a refused instruction.           *)
Written ==
  /\ im \in Instructions /\ junk \in Junk
  /\ status \in {"next", "done", "error"}
  /\ status = "done" => ~Refuses(im)
  /\ code = IF status = "done" THEN Encode(im) ELSE <<>>

LEMMA WrittenAlways == Spec => []Written
  <1>1. Init => Written
    BY DEF Init, Written
  <1>2. Written /\ [Next]_vars => Written'
    <2> SUFFICES ASSUME Written, [Next]_vars
                 PROVE  Written'
      OBVIOUS
    <2>1. im' = im /\ junk' = junk /\ Encode(im)' = Encode(im)
      <3>1. im' = im /\ junk' = junk
        BY DEF Next, Write, Refuse, vars
      <3>2. QED
        BY <3>1, SMTT(30) DEF Encode, Mov, MovGpr, MovGprb, MovAdr, MovAdrAdd, Lea, Load
    <2>2. CASE Write
      <3>1. /\ im' = im /\ junk' = junk /\ status' = "done" /\ code' = Encode(im)
            /\ ~Refuses(im)
        BY <2>2 DEF Write
      <3>2. QED
        BY <2>1, <3>1 DEF Written
    <2>3. CASE Refuse
      BY <2>3 DEF Refuse, Written
    <2>4. CASE UNCHANGED vars
      <3>1. im' = im /\ junk' = junk /\ status' = status /\ code' = code
        BY <2>4 DEF vars
      <3>2. QED
        BY <2>1, <3>1 DEF Written
    <2>5. QED
      BY <2>2, <2>3, <2>4 DEF Next
  <1>3. QED
    BY <1>1, <1>2, PTL DEF Spec

LEMMA WrittenSized ==
  ASSUME Written, status = "done"
  PROVE  code = Encode(im) /\ Sized(im)
  <1>1. junk \in Byte
    BY DomainsAssumption DEF Written
  <1>2. QED
    BY <1>1, InstructionsSized DEF Written

(* Whatever instruction the writer accepts, it writes bytes, and no more   *)
(* of them than the processor reads as one instruction.                    *)
THEOREM CodeIsBytes == Spec => []TypeOK
  <1>1. Written => TypeOK
    <2> SUFFICES ASSUME Written PROVE TypeOK
      OBVIOUS
    <2>1. CASE status = "done"
      <3>1. PICK n \in 0..15 : IsCode(code, n)
        BY <2>1, WrittenSized DEF Sized
      <3>2. QED
        BY <3>1 DEF IsCode, Written, TypeOK
    <2>2. CASE status # "done"
      BY <2>2 DEF Written, TypeOK
    <2>3. QED
      BY <2>1, <2>2
  <1>2. QED
    BY <1>1, WrittenAlways, PTL

(* The size a jump's distance is estimated by is no less than what is      *)
(* written, but for the forms of Underestimated, where exactly one byte is *)
(* missing: for every register, value and byte of a fresh buffer.          *)
THEOREM EstimateBounds == Spec => []SizeEstimated
  <1>1. Written => SizeEstimated
    <2> SUFFICES ASSUME Written, status = "done"
                 PROVE  /\ Len(code) <= PessimalInstrSize(im) + Bit(Underestimated(im))
                        /\ Underestimated(im) => Len(code) = PessimalInstrSize(im) + 1
      BY DEF SizeEstimated
    <2>1. PICK n \in 0..15 :
                 /\ IsCode(code, n)
                 /\ n <= PessimalInstrSize(im) + Bit(Underestimated(im))
                 /\ Underestimated(im) => n = PessimalInstrSize(im) + 1
      BY WrittenSized DEF Sized
    <2>2. Len(code) = n
      BY <2>1 DEF IsCode
    <2>3. QED
      BY <2>1, <2>2
  <1>2. QED
    BY <1>1, WrittenAlways, PTL

(* Every instruction the writer accepts reads back as the operation, the   *)
(* operands and the width it was given, but for exactly the forms of       *)
(* Misencoded: for every register, value and byte of a fresh buffer.       *)
THEOREM MeaningAlways == Spec => []MeaningKept
  <1>1. Written => MeaningKept
    <2> SUFFICES ASSUME Written, status = "done"
                 PROVE  Decode(code) = Means(im) <=> ~Misencoded(im)
      BY DEF MeaningKept
    <2>1. junk \in Byte /\ im \in Instructions /\ ~Refuses(im) /\ code = Encode(im)
      BY DomainsAssumption DEF Written
    <2>2. Kept(im)
      BY <2>1, InstructionsKept
    <2>3. QED
      BY <2>1, <2>2 DEF Kept
  <1>2. QED
    BY <1>1, WrittenAlways, PTL
=============================================================================
